---- MODULE Spec2Model ----
(***************************************************************************)
(* Verification model of trueno-db: the column store and its morsel        *)
(* iterator (src/src/storage/mod.rs, StorageEngine and MorselIterator),    *)
(* the GPU transfer queue (GpuTransferQueue, a tokio bounded mpsc channel  *)
(* of capacity MAX_IN_FLIGHT_TRANSFERS), the JIT compiler's shader cache   *)
(* (src/src/gpu/jit.rs), the GPU reduction kernels (src/src/gpu/kernels.rs)*)
(* and the fused filter+sum kernel, the aggregates of the SQL executor     *)
(* (src/src/query/executor.rs), the backend dispatcher                     *)
(* (src/src/backend/mod.rs), Top-K selection (src/src/topk.rs), the        *)
(* pipeline of QueryExecutor::execute (src/src/query/executor.rs) and the  *)
(* SQL parser QueryEngine::parse (src/src/query/mod.rs).                   *)
(***************************************************************************)
EXTENDS Integers, Sequences, FiniteSets, TLC

(***************************************************************************)
(* Bounds of the model.                                                    *)
(***************************************************************************)
\* batches handed to StorageEngine::new
MaxBatches == 2
\* rows of a batch iterated by the morsel iterator
MaxRows == 3
\* rows of a batch handed to append_batch / update_row
MaxAppendRows == 1
\* appends are cut off once the store holds this many batches
MaxStoreLen == 3
\* tasks that enqueue into the transfer queue
NumProducers == 3
\* batches sent through the transfer queue in one run
MaxSends == 4
\* GPU engines alive in the process, each with its own JIT compiler
NumEngines == 2
\* threads that ask a JIT compiler for a fused kernel
NumCallers == 2
\* compile_fused_filter_sum calls in one run
MaxJitCalls == 3
\* workgroups a GPU kernel is dispatched with, at most
MaxWorkgroups == 3
\* rows of the column handed to the SQL executor
MaxColumnLen == 2
\* rows of the batch handed to top_k
MaxTopKRows == 3
\* rows of the table a query plan is executed on
MaxQueryRows == 2

(***************************************************************************)
(* Program constants.                                                      *)
(***************************************************************************)
MORSEL_SIZE_BYTES == 128 * 1024 * 1024
MAX_IN_FLIGHT_TRANSFERS == 2
WORKGROUP_SIZE == 256
I32_MAX == 2147483647
I32_MIN == -I32_MAX - 1
PCIE_BANDWIDTH_GBPS == 32
MIN_GPU_DATA_SIZE_BYTES == 10000000
GPU_THROUGHPUT_GFLOPS == 100
TRANSFER_OVERHEAD_MULTIPLIER == 5

(***************************************************************************)
(* Data.  A record batch is a schema and a sequence of rows; a row is      *)
(* represented by the number of bytes it occupies (rows of a Utf8 column   *)
(* differ in size).  A row is identified by its batch and its position.    *)
(***************************************************************************)
Schemas == {"A", "B"}

\* byte sizes a row can have: nothing, half a morsel, more than a morsel
RowBytes == {0, MORSEL_SIZE_BYTES \div 2, MORSEL_SIZE_BYTES + 1}

SeqsUpTo(S, n) == UNION {[1..k -> S] : k \in 0..n}

BatchesOf(schemas, n) == [schema : schemas, rows : SeqsUpTo(RowBytes, n)]

RECURSIVE SumSeq(_)
SumSeq(s) == IF s = <<>> THEN 0 ELSE Head(s) + SumSeq(Tail(s))

Range(s) == {s[i] : i \in 1..Len(s)}
Min(a, b) == IF a <= b THEN a ELSE b

\* RecordBatch::num_rows
num_rows(batch) == Len(batch.rows)

\* RecordBatch::get_array_memory_size: the bytes held by the batch's rows
get_array_memory_size(batch) == SumSeq(batch.rows)

\* RecordBatch::schema
schema(batch) == batch.schema

VARIABLES
    batches,      \* StorageEngine.batches
    iter,         \* the live MorselIterator, if any
    iterOut,      \* what the last call of MorselIterator::next returned
    collected,    \* the rows of the morsels returned so far, in order
    calls,        \* the number of calls of next() on the iterator, modulo 2
    lastOp        \* the last store operation and its result

storeVars == <<batches, iter, iterOut, collected, calls, lastOp>>

VARIABLES
    buffer,       \* the batches held by the channel, oldest first
    permits,      \* free slots of the channel (its semaphore)
    waiters,      \* the producers suspended in send, first come first
    ppc,          \* per producer: "idle", "waiting" or "granted"
    handle,       \* per producer: "none", or "clone" (a Sender of sender())
    via,          \* per producer: how its send in flight was issued
    msg,          \* per producer: the batch of its send in flight, or 0
    sendOut,      \* per producer: the result of its last send
    cpc,          \* the consumer: "idle", or "waiting" inside dequeue
    deqOut,       \* what the last dequeue returned
    accepted,     \* the batches whose send returned Ok, in order
    delivered,    \* the batches returned by dequeue, in order
    nextId,       \* the next batch to be sent
    due           \* batches whose send was first in line when a dequeue
                  \* removed a batch from the full queue

queueVars == <<buffer, permits, waiters, ppc, handle, via, msg, sendOut, cpc,
               deqOut, accepted, delivered, nextId, due>>

VARIABLES
    shaderCache,  \* per cache, the map from cache key to shader module
    cacheLock,    \* per cache, the caller holding its mutex, 0 if free
    jpc,          \* per caller: "idle", "lock" (at cache.lock()), "locked"
    jreq,         \* per caller, the engine, operator and literal it asked for
    jitOut,       \* per caller, the module its last call returned
    compileLog,   \* history: the create_shader_module calls, in order
    returnLog     \* history: the calls that returned, in order

jitVars == <<shaderCache, cacheLock, jpc, jreq, jitOut, compileLog, returnLog>>

VARIABLES
    data,         \* the Int32 column handed to the kernel or the executor
    kernel,       \* the GPU kernel that is run on it
    gpc,          \* the GPU call: "idle", "dispatched" or "done"
    pending,      \* the workgroups of the dispatch that have not run yet
    output,       \* output[0] of the kernel's output buffer
    gpuOut        \* what the GPU call returned

kernelVars == <<data, kernel, gpc, pending, output, gpuOut>>

VARIABLES
    backend,      \* the Backend the QueryExecutor was built with
    execOut       \* what the executor's last aggregate returned

execVars == <<backend, execOut>>

VARIABLES
    selBytes,     \* total_bytes handed to BackendDispatcher::select
    selFlops,     \* estimated_flops handed to it
    selCmp,       \* how its f64 comparison of the two times came out
    selOut,       \* the Backend it returned
    selPrev       \* the estimate and the outcome of the call before it

selVars == <<selBytes, selFlops, selCmp, selOut, selPrev>>

VARIABLES
    tkBatch,      \* the RecordBatch top_k is called on
    tkCol,        \* column_index
    tkK,          \* k
    tkOrder,      \* SortOrder
    tkOut,        \* what top_k returned
    tkK2,         \* k of a second top_k, called on the batch the first returned
    tkOut2        \* what the second top_k returned

tkVars == <<tkBatch, tkCol, tkK, tkOrder, tkOut, tkK2, tkOut2>>

VARIABLES
    qPlan,        \* the QueryPlan handed to QueryExecutor::execute
    qResult,      \* execute's result before ORDER BY and LIMIT are applied
    qOut          \* what execute returned

queryVars == <<qPlan, qResult, qOut>>

VARIABLES
    pSql,         \* the text handed to QueryEngine::parse, as sqlparser reads it
    pOut          \* what parse returned

parseVars == <<pSql, pOut>>

engineVars ==
    <<jitVars, kernelVars, execVars, selVars, tkVars, queryVars, parseVars>>
jitFrame ==
    <<storeVars, queueVars, kernelVars, execVars, selVars, tkVars,
      queryVars, parseVars>>
kernelFrame ==
    <<storeVars, queueVars, jitVars, execVars, selVars, tkVars,
      queryVars, parseVars>>
execFrame ==
    <<storeVars, queueVars, jitVars, kernelVars, selVars, tkVars,
      queryVars, parseVars>>
selFrame ==
    <<storeVars, queueVars, jitVars, kernelVars, execVars, tkVars,
      queryVars, parseVars>>
queryFrame ==
    <<storeVars, queueVars, jitVars, kernelVars, execVars, selVars, tkVars,
      parseVars>>
parseFrame ==
    <<storeVars, queueVars, jitVars, kernelVars, execVars, selVars, tkVars,
      queryVars>>
tkFrame ==
    <<storeVars, queueVars, jitVars, kernelVars, execVars, selVars,
      queryVars, parseVars>>

(***************************************************************************)
(* Results of the store operations.                                        *)
(***************************************************************************)
NoBatch == [schema |-> "A", rows |-> <<>>]

OpResult(op, arg, kind, text) == [op |-> op, arg |-> arg, kind |-> kind, msg |-> text]

NoOp == OpResult("none", NoBatch, "Ok", "")

(***************************************************************************)
(* MorselIterator.                                                         *)
(***************************************************************************)
NoIter == [active |-> FALSE, current_batch_idx |-> 0, current_offset |-> 0,
           morsel_rows |-> 0]

NotCalled == [tag |-> "NotCalled", batch |-> 0, offset |-> 0, length |-> 0]
None == [tag |-> "None", batch |-> 0, offset |-> 0, length |-> 0]
Some(b, o, l) == [tag |-> "Some", batch |-> b, offset |-> o, length |-> l]

\* MorselIterator::calculate_morsel_rows
calculate_morsel_rows(batch) ==
    IF num_rows(batch) = 0 THEN 0
    ELSE LET total_bytes == get_array_memory_size(batch)
             bytes_per_row == total_bytes \div num_rows(batch)
         IN  IF bytes_per_row = 0 THEN num_rows(batch)
             ELSE MORSEL_SIZE_BYTES \div bytes_per_row

\* MorselIterator::new: the morsel size is taken from the first batch
MorselIteratorNew(bs) ==
    [active |-> TRUE, current_batch_idx |-> 0, current_offset |-> 0,
     morsel_rows |-> IF bs = <<>> THEN 0 ELSE calculate_morsel_rows(bs[1])]

\* MorselIterator::next: the iterator after the call and the value returned.
\* Batch indices are 0-based as in the source; bs is 1-based.
RECURSIVE MorselNext(_, _)
MorselNext(bs, it) ==
    IF it.current_batch_idx >= Len(bs)
    THEN [it |-> it, out |-> None]
    ELSE LET current_batch == bs[it.current_batch_idx + 1] IN
         IF it.current_offset >= num_rows(current_batch)
         THEN MorselNext(bs, [it EXCEPT !.current_batch_idx = @ + 1,
                                        !.current_offset = 0])
         ELSE LET remaining_rows == num_rows(current_batch) - it.current_offset
                  slice_length == Min(remaining_rows, it.morsel_rows)
              IN  [it  |-> [it EXCEPT !.current_offset = @ + slice_length],
                   out |-> Some(it.current_batch_idx, it.current_offset,
                                slice_length)]

\* the rows <<batch, position>> of a morsel, in order
MorselRows(m) == [i \in 1..m.length |-> <<m.batch, m.offset + i - 1>>]

\* the bytes of a morsel: the bytes of the rows of its slice
MorselBytes(bs, m) ==
    SumSeq([i \in 1..m.length |-> bs[m.batch + 1].rows[m.offset + i]])

\* the rows of batch number b (0-based), in order
BatchRows(bs, b) == [i \in 1..num_rows(bs[b + 1]) |-> <<b, i - 1>>]

\* the rows of all batches, in store order
RECURSIVE AllRows(_, _)
AllRows(bs, from) ==
    IF from >= Len(bs) THEN <<>>
    ELSE BatchRows(bs, from) \o AllRows(bs, from + 1)

TotalRows(bs) == Len(AllRows(bs, 0))

(***************************************************************************)
(* Store operations.                                                       *)
(***************************************************************************)
\* StorageEngine::new(batches): the list is taken as it is
StorageEngineNew(bs) == bs

\* append_batch that pushes the batch before it validates the schema
append_batch_push_first(bs, batch) ==
    IF bs /= <<>> /\ schema(batch) /= schema(bs[1])
    THEN [batches |-> Append(bs, batch),
          result  |-> OpResult("append_batch", batch, "StorageError", "Schema mismatch")]
    ELSE [batches |-> Append(bs, batch),
          result  |-> OpResult("append_batch", batch, "Ok", "")]

\* StorageEngine::append_batch: <<batches after the call, result>>
append_batch(bs, batch) ==
    IF bs /= <<>> /\ schema(batch) /= schema(bs[1])
    THEN [batches |-> bs,
          result  |-> OpResult("append_batch", batch, "StorageError", "Schema mismatch")]
    ELSE [batches |-> Append(bs, batch),
          result  |-> OpResult("append_batch", batch, "Ok", "")]

\* update_row that overwrites the batch at row_id when there is one
update_row_in_place(bs, row_id, values) ==
    IF row_id + 1 \in 1..Len(bs)
    THEN [batches |-> [bs EXCEPT ![row_id + 1] = values],
          result  |-> OpResult("update_row", values, "StorageError",
                               "Single-row updates not supported")]
    ELSE [batches |-> bs,
          result  |-> OpResult("update_row", values, "StorageError",
                               "Single-row updates not supported")]

\* StorageEngine::update_row: always an error, the store is not touched
update_row(bs, row_id, values) ==
    [batches |-> bs,
     result  |-> OpResult("update_row", values, "StorageError",
                          "Single-row updates not supported")]

\* QueryExecutor::execute up to combine_batches: the store is only read
execute(bs) ==
    IF bs = <<>>
    THEN OpResult("execute", NoBatch, "InvalidInput", "No data in storage")
    ELSE IF Len(bs) > 1 /\ \E i \in 1..Len(bs) : schema(bs[i]) /= schema(bs[1])
    THEN OpResult("execute", NoBatch, "StorageError", "Failed to combine batches")
    ELSE OpResult("execute", NoBatch, "Ok", "")

\* storage.append_batch(batch); needs &mut self, so no iterator is alive
AppendBatch ==
    /\ ~iter.active
    /\ Len(batches) < MaxStoreLen
    /\ \E batch \in BatchesOf(Schemas, MaxAppendRows) :
         LET r == append_batch(batches, batch) IN
         /\ batches' = r.batches
         /\ lastOp' = r.result
    /\ UNCHANGED <<iter, iterOut, collected, calls>>
    /\ UNCHANGED queueVars
    /\ UNCHANGED engineVars

\* storage.update_row(row_id, values); needs &mut self
UpdateRow ==
    /\ ~iter.active
    /\ \E row_id \in 0..MaxAppendRows, values \in BatchesOf(Schemas, MaxAppendRows) :
         LET r == update_row(batches, row_id, values) IN
         /\ batches' = r.batches
         /\ lastOp' = r.result
    /\ UNCHANGED <<iter, iterOut, collected, calls>>
    /\ UNCHANGED queueVars
    /\ UNCHANGED engineVars

\* executor.execute(&plan, &storage)
Execute ==
    /\ lastOp' = execute(batches)
    /\ UNCHANGED <<batches, iter, iterOut, collected, calls>>
    /\ UNCHANGED queueVars
    /\ UNCHANGED engineVars

\* storage.morsels()
Morsels ==
    /\ ~iter.active
    /\ iter' = MorselIteratorNew(batches)
    /\ iterOut' = NotCalled
    /\ collected' = <<>>
    /\ calls' = 0
    /\ lastOp' = OpResult("morsels", NoBatch, "Ok", "")
    /\ UNCHANGED batches
    /\ UNCHANGED queueVars
    /\ UNCHANGED engineVars

\* iterator.next()
IterNext ==
    /\ iter.active
    /\ LET r == MorselNext(batches, iter) IN
       /\ iter' = r.it
       /\ iterOut' = r.out
       /\ collected' = IF r.out.tag = "Some"
                       THEN collected \o MorselRows(r.out)
                       ELSE collected
    /\ calls' = (calls + 1) % 2
    /\ UNCHANGED <<batches, lastOp>>
    /\ UNCHANGED queueVars
    /\ UNCHANGED engineVars

\* the iterator is dropped, which ends its borrow of the store
IterDrop ==
    /\ iter.active
    /\ iter' = NoIter
    /\ UNCHANGED <<batches, iterOut, collected, calls, lastOp>>
    /\ UNCHANGED queueVars
    /\ UNCHANGED engineVars

(***************************************************************************)
(* GpuTransferQueue: a tokio mpsc channel of MAX_IN_FLIGHT_TRANSFERS slots. *)
(* The queue owns the Receiver and one Sender; sender() hands out clones.  *)
(* The channel's semaphore is first come first served: a slot freed by a   *)
(* receive goes to the longest-waiting send.                               *)
(***************************************************************************)
Producers == 1..NumProducers

NotDequeued == [tag |-> "NotCalled", batch |-> 0]
DeqNone == [tag |-> "None", batch |-> 0]
DeqSome(b) == [tag |-> "Some", batch |-> b]

\* a channel created with one slot more than MAX_IN_FLIGHT_TRANSFERS
GpuTransferQueueNew_extra_slot ==
    [buffer |-> <<>>, permits |-> MAX_IN_FLIGHT_TRANSFERS + 1]

\* GpuTransferQueue::new: an empty channel with all its slots free
GpuTransferQueueNew == [buffer |-> <<>>, permits |-> MAX_IN_FLIGHT_TRANSFERS]

\* the Senders alive: the one the queue holds itself, and the clones
TxCount(h) == 1 + Cardinality({p \in Producers : h[p] = "clone"})

\* the channel is closed for the receiver when no Sender is left
IsClosed(h) == TxCount(h) = 0

\* a slot is given back to the pool and no waiting send is woken
release_permit_no_wake(perm, wait) ==
    [permits |-> perm + 1, waiters |-> wait, granted |-> 0]

\* a slot is given back: to the first waiting send, or else to the pool
release_permit(perm, wait) ==
    IF wait /= <<>>
    THEN [permits |-> perm, waiters |-> Tail(wait), granted |-> Head(wait)]
    ELSE [permits |-> perm + 1, waiters |-> wait, granted |-> 0]

\* the borrow rules: enqueue and sender take &self, dequeue takes &mut self,
\* each for as long as its future lives
SharedBorrow == \E p \in Producers : ppc[p] /= "idle" /\ via[p] = "enqueue"
ExclusiveBorrow == cpc = "waiting"

\* the queue, and with it the Receiver it owns, has been dropped
QueueDropped == cpc = "dropped"

\* what a failed send returns: enqueue maps the channel's error to
\* Error::QueueClosed, a clone of the Sender hands the channel's own
\* SendError to its caller
send_error(how) == IF how = "enqueue" THEN "QueueClosed" ELSE "SendError"

\* queue.sender(): producer p gets a clone of the Sender
Sender(p) ==
    /\ handle[p] = "none"
    /\ ppc[p] = "idle"
    /\ ~ExclusiveBorrow
    /\ ~QueueDropped
    /\ handle' = [handle EXCEPT ![p] = "clone"]
    /\ UNCHANGED <<buffer, permits, waiters, ppc, via, msg, sendOut, cpc, deqOut,
                   accepted, delivered, nextId, due>>
    /\ UNCHANGED storeVars
    /\ UNCHANGED engineVars

\* producer p drops its clone of the Sender
DropSender(p) ==
    /\ handle[p] = "clone"
    /\ ppc[p] = "idle"
    /\ handle' = [handle EXCEPT ![p] = "none"]
    /\ UNCHANGED <<buffer, permits, waiters, ppc, via, msg, sendOut, cpc, deqOut,
                   accepted, delivered, nextId, due>>
    /\ UNCHANGED storeVars
    /\ UNCHANGED engineVars

\* sender.send(batch).await, first poll: takes a free slot and queues the
\* batch, or suspends at the end of the line
StartSend(p, how) ==
    /\ ppc[p] = "idle"
    /\ nextId <= MaxSends
    /\ nextId' = nextId + 1
    /\ IF QueueDropped
       THEN /\ sendOut' = [sendOut EXCEPT ![p] = send_error(how)]
            /\ UNCHANGED <<permits, buffer, accepted, waiters, ppc, via, msg>>
       ELSE IF permits > 0
       THEN /\ permits' = permits - 1
            /\ buffer' = Append(buffer, nextId)
            /\ accepted' = Append(accepted, nextId)
            /\ sendOut' = [sendOut EXCEPT ![p] = "Ok"]
            /\ UNCHANGED <<waiters, ppc, via, msg>>
       ELSE /\ waiters' = Append(waiters, p)
            /\ ppc' = [ppc EXCEPT ![p] = "waiting"]
            /\ via' = [via EXCEPT ![p] = how]
            /\ msg' = [msg EXCEPT ![p] = nextId]
            /\ UNCHANGED <<permits, buffer, accepted, sendOut>>
    /\ UNCHANGED <<handle, cpc, deqOut, delivered, due>>
    /\ UNCHANGED storeVars
    /\ UNCHANGED engineVars

\* queue.enqueue(batch) by a holder of &queue
Enqueue(p) ==
    /\ handle[p] = "none"
    /\ ~ExclusiveBorrow
    /\ ~QueueDropped
    /\ StartSend(p, "enqueue")

\* send(batch) on a clone obtained from queue.sender()
Send(p) ==
    /\ handle[p] = "clone"
    /\ StartSend(p, "send")

\* the suspended send of p, woken with a slot, queues its batch and returns;
\* woken by the drop of the queue it fails, and a send that was handed its
\* slot just before the drop may still return Ok for a batch nobody receives
EnqueueResume(p) ==
    /\ ppc[p] \in {"granted", "closed"}
    /\ \/ /\ ppc[p] = "granted"
          /\ buffer' = IF QueueDropped THEN buffer ELSE Append(buffer, msg[p])
          /\ accepted' = Append(accepted, msg[p])
          /\ sendOut' = [sendOut EXCEPT ![p] = "Ok"]
       \/ /\ ppc[p] = "closed" \/ QueueDropped
          /\ sendOut' = [sendOut EXCEPT ![p] = send_error(via[p])]
          /\ UNCHANGED <<buffer, accepted>>
    /\ ppc' = [ppc EXCEPT ![p] = "idle"]
    /\ msg' = [msg EXCEPT ![p] = 0]
    /\ via' = [via EXCEPT ![p] = "none"]
    /\ UNCHANGED <<permits, waiters, handle, cpc, deqOut, delivered, nextId, due>>
    /\ UNCHANGED storeVars
    /\ UNCHANGED engineVars

\* the newest batch first
Recv_newest_first ==
    IF buffer /= <<>>
    THEN LET r == release_permit(permits, waiters)
             n == Len(buffer) IN
         /\ buffer' = SubSeq(buffer, 1, n - 1)
         /\ deqOut' = DeqSome(buffer[n])
         /\ delivered' = Append(delivered, buffer[n])
         /\ permits' = r.permits
         /\ waiters' = r.waiters
         /\ ppc' = IF r.granted = 0 THEN ppc
                   ELSE [ppc EXCEPT ![r.granted] = "granted"]
         /\ due' = IF waiters = <<>> THEN due ELSE due \cup {msg[Head(waiters)]}
         /\ cpc' = "idle"
    ELSE IF IsClosed(handle)
    THEN /\ deqOut' = DeqNone
         /\ cpc' = "idle"
         /\ UNCHANGED <<buffer, delivered, permits, waiters, ppc, due>>
    ELSE /\ cpc' = "waiting"
         /\ UNCHANGED <<buffer, deqOut, delivered, permits, waiters, ppc, due>>

\* receiver.recv(), one poll: the oldest batch, None on a closed and empty
\* channel, and otherwise the consumer is (or stays) suspended
Recv ==
    IF buffer /= <<>>
    THEN LET r == release_permit(permits, waiters) IN
         /\ buffer' = Tail(buffer)
         /\ deqOut' = DeqSome(Head(buffer))
         /\ delivered' = Append(delivered, Head(buffer))
         /\ permits' = r.permits
         /\ waiters' = r.waiters
         /\ ppc' = IF r.granted = 0 THEN ppc
                   ELSE [ppc EXCEPT ![r.granted] = "granted"]
         /\ due' = IF waiters = <<>> THEN due ELSE due \cup {msg[Head(waiters)]}
         /\ cpc' = "idle"
    ELSE IF IsClosed(handle)
    THEN /\ deqOut' = DeqNone
         /\ cpc' = "idle"
         /\ UNCHANGED <<buffer, delivered, permits, waiters, ppc, due>>
    ELSE /\ cpc' = "waiting"
         /\ UNCHANGED <<buffer, deqOut, delivered, permits, waiters, ppc, due>>

\* queue.dequeue().await, first poll
Dequeue ==
    /\ cpc = "idle"
    /\ ~SharedBorrow
    /\ Recv
    /\ UNCHANGED <<handle, via, msg, sendOut, accepted, nextId>>
    /\ UNCHANGED storeVars
    /\ UNCHANGED engineVars

\* the suspended dequeue is woken: a batch has arrived or the channel closed
DequeueResume ==
    /\ cpc = "waiting"
    /\ buffer /= <<>> \/ IsClosed(handle)
    /\ Recv
    /\ UNCHANGED <<handle, via, msg, sendOut, accepted, nextId>>
    /\ UNCHANGED storeVars
    /\ UNCHANGED engineVars

\* the owner drops the queue: the Receiver goes with it, the channel closes,
\* the batches still queued are dropped and every suspended send is woken
DropQueue ==
    /\ cpc = "idle"
    /\ ~SharedBorrow
    /\ cpc' = "dropped"
    /\ buffer' = <<>>
    /\ waiters' = <<>>
    /\ ppc' = [p \in Producers |-> IF ppc[p] = "waiting" THEN "closed" ELSE ppc[p]]
    /\ UNCHANGED <<permits, handle, via, msg, sendOut, deqOut, accepted,
                   delivered, nextId, due>>
    /\ UNCHANGED storeVars
    /\ UNCHANGED engineVars

QueueIdle ==
    /\ buffer = GpuTransferQueueNew.buffer
    /\ permits = GpuTransferQueueNew.permits
    /\ waiters = <<>>
    /\ ppc = [p \in Producers |-> "idle"]
    /\ handle = [p \in Producers |-> "none"]
    /\ via = [p \in Producers |-> "none"]
    /\ msg = [p \in Producers |-> 0]
    /\ sendOut = [p \in Producers |-> "NotCalled"]
    /\ cpc = "idle"
    /\ deqOut = NotDequeued
    /\ accepted = <<>>
    /\ delivered = <<>>
    /\ nextId = 1
    /\ due = {}

(***************************************************************************)
(* The JIT compiler and its shader cache (src/src/gpu/jit.rs).  A compiled *)
(* shader module is identified by the number of the create_shader_module   *)
(* call that made it.                                                      *)
(***************************************************************************)
Engines == 1..NumEngines
Callers == 1..NumCallers

\* filter operators and literals the callers ask for
FilterOps == {"gt", "lt"}
Thresholds == {5}

NoRequest == [engine |-> 0, op |-> "none", threshold |-> 0]
NoModule == 0

\* ShaderCache::new(): an empty map
ShaderCacheNew == [k \in {} |-> NoModule]

\* GpuEngine::new() gives every engine a JitCompiler of its own, and
\* JitCompiler::new() gives that compiler a ShaderCache of its own
jit_cache_process_wide(e) == 1
jit_cache(e) == e

\* format!("filter_{filter_op}_{filter_threshold}_sum")
cache_key(op, threshold) == <<"filter", op, threshold, "sum">>

\* HashMap::insert
cache_insert(c, key, module) ==
    [k \in DOMAIN c \cup {key} |-> IF k = key THEN module ELSE c[k]]

\* ShaderCache::get_or_insert with the lock held: compile and insert only
\* if the key is absent, then hand out the entry of the key
get_or_insert_unconditional(c, key, fresh) ==
    [cache |-> cache_insert(c, key, fresh), module |-> fresh, compiled |-> TRUE]
get_or_insert(c, key, fresh) ==
    LET absent == key \notin DOMAIN c
        c2 == IF absent THEN cache_insert(c, key, fresh) ELSE c
    IN [cache |-> c2, module |-> c2[key], compiled |-> absent]

\* JitCompiler::compile_fused_filter_sum on the compiler of engine e
compile_fused_filter_sum_uncached(caches, e, op, threshold, fresh) ==
    [cache |-> caches[jit_cache(e)], module |-> fresh, compiled |-> TRUE]
compile_fused_filter_sum(caches, e, op, threshold, fresh) ==
    get_or_insert(caches[jit_cache(e)], cache_key(op, threshold), fresh)

JitCalls == Len(returnLog) + Cardinality({t \in Callers : jpc[t] /= "idle"})

\* caller t enters compile_fused_filter_sum(op, threshold) on engine e and
\* reaches cache.lock()
CompileFusedFilterSum(t, e, op, threshold) ==
    /\ jpc[t] = "idle"
    /\ JitCalls < MaxJitCalls
    /\ jpc' = [jpc EXCEPT ![t] = "lock"]
    /\ jreq' = [jreq EXCEPT ![t] = [engine |-> e, op |-> op, threshold |-> threshold]]
    /\ UNCHANGED <<shaderCache, cacheLock, jitOut, compileLog, returnLog>>
    /\ UNCHANGED jitFrame

\* cache.lock().unwrap(): the mutex of the cache is free and t takes it
CacheLock(t) ==
    /\ jpc[t] = "lock"
    /\ cacheLock[jit_cache(jreq[t].engine)] = 0
    /\ cacheLock' = [cacheLock EXCEPT ![jit_cache(jreq[t].engine)] = t]
    /\ jpc' = [jpc EXCEPT ![t] = "locked"]
    /\ UNCHANGED <<shaderCache, jreq, jitOut, compileLog, returnLog>>
    /\ UNCHANGED jitFrame

\* the body of get_or_insert under the lock, the return of the module and
\* the release of the lock when the guard goes out of scope
GetOrInsert(t) ==
    /\ jpc[t] = "locked"
    /\ LET q == jreq[t]
           fresh == Len(compileLog) + 1
           r == compile_fused_filter_sum(shaderCache, q.engine, q.op, q.threshold, fresh)
       IN /\ shaderCache' = [shaderCache EXCEPT ![jit_cache(q.engine)] = r.cache]
          /\ compileLog' = IF r.compiled
                            THEN Append(compileLog,
                                        [engine |-> q.engine,
                                         key |-> cache_key(q.op, q.threshold)])
                            ELSE compileLog
          /\ jitOut' = [jitOut EXCEPT ![t] = r.module]
          /\ returnLog' = Append(returnLog,
                                  [engine |-> q.engine, op |-> q.op,
                                   threshold |-> q.threshold,
                                   key |-> cache_key(q.op, q.threshold),
                                   module |-> r.module])
          /\ cacheLock' = [cacheLock EXCEPT ![jit_cache(q.engine)] = 0]
    /\ jpc' = [jpc EXCEPT ![t] = "idle"]
    /\ jreq' = [jreq EXCEPT ![t] = NoRequest]
    /\ UNCHANGED jitFrame

JitIdle ==
    /\ shaderCache = [e \in Engines |-> ShaderCacheNew]
    /\ cacheLock = [e \in Engines |-> 0]
    /\ jpc = [t \in Callers |-> "idle"]
    /\ jreq = [t \in Callers |-> NoRequest]
    /\ jitOut = [t \in Callers |-> NoModule]
    /\ compileLog = <<>>
    /\ returnLog = <<>>

(***************************************************************************)
(* The GPU reduction kernels (src/src/gpu/kernels.rs) and the fused        *)
(* filter+sum kernel generated by the JIT compiler.  i32 values keep their *)
(* 32 bits.  The threads of a workgroup run in phases separated by         *)
(* workgroupBarrier(); within a phase thread tid reads shared_data[tid]    *)
(* and shared_data[tid + stride] and writes shared_data[tid] only if       *)
(* tid < stride, so no thread reads what another writes in the same phase  *)
(* and a phase is one simultaneous update of shared_data.  A workgroup     *)
(* touches memory shared with other workgroups only in the atomic          *)
(* operation of its thread 0, so a workgroup is one step, taken at the     *)
(* moment of that atomic operation.                                        *)
(***************************************************************************)
Max(a, b) == IF a > b THEN a ELSE b

\* a + b in i32, wrapping around at 2^31
wrapping_add(a, b) ==
    IF a > 0 /\ b > 0 /\ a > I32_MAX - b
    THEN (a - I32_MAX - 1) + (b - I32_MAX - 1)
    ELSE IF a < 0 /\ b < 0 /\ a < I32_MIN - b
    THEN (a + I32_MAX + 1) + (b + I32_MAX + 1)
    ELSE a + b

NoKernel == [kind |-> "none", op |-> "none", threshold |-> 0]
ReductionKernels == [kind : {"sum", "min", "max"}, op : {"none"}, threshold : {0}]
FusedOps == {"gt", "lt", "gte", "lte", "eq", "ne"}
FusedThresholds == {-1, 5}
FusedKernels == [kind : {"fused"}, op : FusedOps, threshold : FusedThresholds]

\* generate_fused_filter_sum: the WGSL operator of a filter_op
wgsl_op_always_gt(filter_op) == ">"
wgsl_op(filter_op) ==
    CASE filter_op = "lt" -> "<"
      [] filter_op = "eq" -> "=="
      [] filter_op = "gte" -> ">="
      [] filter_op = "lte" -> "<="
      [] filter_op = "ne" -> "!="
      [] OTHER -> ">"

\* the generated test  data {wgsl_op} {filter_threshold}
filter_passes(op, value, threshold) ==
    CASE op = "<" -> value < threshold
      [] op = "==" -> value = threshold
      [] op = ">=" -> value >= threshold
      [] op = "<=" -> value <= threshold
      [] op = "!=" -> value /= threshold
      [] op = ">" -> value > threshold

\* what a thread beyond the end of the input puts into shared_data
shader_pad(k) ==
    CASE k.kind = "min" -> I32_MAX
      [] k.kind = "max" -> I32_MIN
      [] OTHER -> 0

\* the load phase of thread gid (input is indexed from 0 in the shader)
shader_load(k, input, gid) ==
    IF gid < Len(input)
    THEN IF k.kind = "fused"
         THEN IF filter_passes(wgsl_op(k.op), input[gid + 1], k.threshold)
              THEN input[gid + 1]
              ELSE 0
         ELSE input[gid + 1]
    ELSE shader_pad(k)

\* the operation of the tree reduction on two cells of shared_data
reduce_op(k, a, b) ==
    CASE k.kind = "min" -> Min(a, b)
      [] k.kind = "max" -> Max(a, b)
      [] OTHER -> wrapping_add(a, b)

\* atomicAdd / atomicMin / atomicMax on output[0]
atomic_op_store(k, old, v) == v
atomic_op(k, old, v) ==
    CASE k.kind = "min" -> Min(old, v)
      [] k.kind = "max" -> Max(old, v)
      [] OTHER -> wrapping_add(old, v)

Threads == 0..(WORKGROUP_SIZE - 1)

\* one phase of the reduction loop in workgroup w
reduce_phase(k, shared_data, w, stride, input_size) ==
    [tid \in Threads |->
        IF tid < stride /\ w * WORKGROUP_SIZE + tid + stride < input_size
        THEN reduce_op(k, shared_data[tid], shared_data[tid + stride])
        ELSE shared_data[tid]]

RECURSIVE tree_reduce(_, _, _, _, _)
\* the reduction loop: stride = 128, 64, .., 1
tree_reduce(k, shared_data, w, stride, input_size) ==
    IF stride = 0
    THEN shared_data
    ELSE tree_reduce(k, reduce_phase(k, shared_data, w, stride, input_size),
                     w, stride \div 2, input_size)

\* shared_data[0] of workgroup w when its thread 0 reaches the atomic
workgroup_result(k, input, w) ==
    LET loaded == [tid \in Threads |-> shader_load(k, input, w * WORKGROUP_SIZE + tid)]
    IN tree_reduce(k, loaded, w, WORKGROUP_SIZE \div 2, Len(input))[0]

\* the output buffer as the host creates it
output_init(k) ==
    CASE k.kind = "min" -> I32_MAX
      [] k.kind = "max" -> I32_MIN
      [] OTHER -> 0

\* what the host returns for an empty array, without running the kernel
empty_result(k) == output_init(k)

\* (input_size as u32).div_ceil(WORKGROUP_SIZE)
workgroup_count(input_size) == (input_size + WORKGROUP_SIZE - 1) \div WORKGROUP_SIZE

GpuNotCalled == [tag |-> "NotCalled", value |-> 0]
GpuOk(v) == [tag |-> "Ok", value |-> v]

\* sum_i32 / min_i32 / max_i32 / fused_filter_sum up to the submission of
\* the dispatch; an empty array returns at once
GpuDispatch ==
    /\ gpc = "idle"
    /\ IF Len(data) = 0
       THEN /\ gpuOut' = GpuOk(empty_result(kernel))
            /\ gpc' = "done"
            /\ UNCHANGED <<pending, output>>
       ELSE /\ output' = output_init(kernel)
            /\ pending' = 0..(workgroup_count(Len(data)) - 1)
            /\ gpc' = "dispatched"
            /\ UNCHANGED gpuOut
    /\ UNCHANGED <<data, kernel>>
    /\ UNCHANGED kernelFrame

\* workgroup w runs and its thread 0 combines its result into output[0]
Workgroup(w) ==
    /\ gpc = "dispatched"
    /\ w \in pending
    /\ output' = atomic_op(kernel, output, workgroup_result(kernel, data, w))
    /\ pending' = pending \ {w}
    /\ UNCHANGED <<data, kernel, gpc, gpuOut>>
    /\ UNCHANGED kernelFrame

\* the dispatch has completed; the host maps the staging buffer and returns
\* output[0]
GpuReadBack ==
    /\ gpc = "dispatched"
    /\ pending = {}
    /\ gpuOut' = GpuOk(output)
    /\ gpc' = "done"
    /\ UNCHANGED <<data, kernel, pending, output>>
    /\ UNCHANGED kernelFrame

KernelIdle ==
    /\ data = <<>>
    /\ kernel = NoKernel
    /\ gpc = "idle"
    /\ pending = {}
    /\ output = 0
    /\ gpuOut = GpuNotCalled

\* the columns the kernels are run on: a short pattern repeated up to a
\* length around a multiple of the workgroup size, and 1, 2, .., n
SampleValues == {I32_MIN, -1, 1, 5, I32_MAX}
InputLengths ==
    {0, 1, 2, 10} \cup
    {n * WORKGROUP_SIZE + d : n \in 1..(MaxWorkgroups - 1), d \in {-1, 0, 1}}
cyclic(seed, n) == [i \in 1..n |-> seed[((i - 1) % Len(seed)) + 1]]
ramp(n) == [i \in 1..n |-> i]
KernelInputs ==
    {cyclic(seed, n) : seed \in SeqsUpTo(SampleValues, 2) \ {<<>>}, n \in InputLengths}
    \cup {ramp(n) : n \in InputLengths}

(***************************************************************************)
(* The aggregates of the SQL executor (src/src/query/executor.rs).  An i64 *)
(* is kept as two limbs, value = hi * 2^31 + lo with 0 <= lo < 2^31.       *)
(***************************************************************************)
Backends == {"CostBased", "Gpu", "Simd"}

\* QueryExecutor::new() and QueryExecutor::with_backend(backend)
QueryExecutorNew == "CostBased"
with_backend(b) == b

\* i64::from(v) for an i32 v
i64_from(v) ==
    IF v >= 0 THEN [hi |-> 0, lo |-> v] ELSE [hi |-> -1, lo |-> (v + I32_MAX) + 1]

\* x + y in i64 (no overflow: the columns are far shorter than 2^32 rows)
i64_add(x, y) ==
    IF x.lo > I32_MAX - y.lo
    THEN [hi |-> x.hi + y.hi + 1, lo |-> (x.lo - (I32_MAX - y.lo)) - 1]
    ELSE [hi |-> x.hi + y.hi, lo |-> x.lo + y.lo]

RECURSIVE i64_sum(_)
\* (0..array.len()).map(|i| i64::from(array.value(i))).sum()
i64_sum(array) ==
    IF array = <<>>
    THEN i64_from(0)
    ELSE i64_add(i64_sum(SubSeq(array, 1, Len(array) - 1)),
                 i64_from(array[Len(array)]))

\* Iterator::min / max followed by unwrap_or(0)
iter_min(array) ==
    IF array = <<>> THEN 0
    ELSE CHOOSE m \in Range(array) : \A v \in Range(array) : m <= v
iter_max(array) ==
    IF array = <<>> THEN 0
    ELSE CHOOSE m \in Range(array) : \A v \in Range(array) : m >= v

AggregateFunctions == {"Sum", "Count", "Min", "Max"}

\* QueryExecutor::aggregate_i32; array holds the column's non-null values and
\* an f64 is the fraction it stands for
aggregate_i32(func, array, rows) ==
    CASE func = "Sum" -> [type |-> "Int64", value |-> i64_sum(array)]
      [] func = "Avg" -> [type |-> "Float64",
                          value |-> IF Len(array) > 0
                                    THEN [num |-> SumSeq(array), den |-> Len(array)]
                                    ELSE [num |-> 0, den |-> 1]]
      [] func = "Count" -> [type |-> "Int64", value |-> i64_from(rows)]
      [] func = "Min" -> [type |-> "Int32", value |-> i64_from(iter_min(array))]
      [] func = "Max" -> [type |-> "Int32", value |-> i64_from(iter_max(array))]

\* where an aggregate is computed: execute and the functions it calls never
\* read self.backend, never call BackendDispatcher::select and never call a
\* GPU or SIMD kernel; the aggregate is the iterator loop of aggregate_i32
aggregate_backend(b) == "Scalar"

ExecNotCalled ==
    [tag |-> "NotCalled", func |-> "none", type |-> "none",
     value |-> i64_from(0), ranOn |-> "none"]

\* execute of SELECT func(v) FROM t over the Int32 column v of the store
ExecutorAggregate(func) ==
    /\ execOut = ExecNotCalled
    /\ data /= <<>>
    /\ LET r == aggregate_i32(func, data, Len(data)) IN
       execOut' = [tag |-> "Ok", func |-> func, type |-> r.type,
                   value |-> r.value, ranOn |-> aggregate_backend(backend)]
    /\ UNCHANGED backend
    /\ UNCHANGED execFrame

ExecIdle ==
    /\ backend = QueryExecutorNew
    /\ execOut = ExecNotCalled

(***************************************************************************)
(* The backend dispatcher (src/src/backend/mod.rs).  estimated_flops is an *)
(* f64: a number, a NaN or an infinity.  The two times are                 *)
(*   pcie_transfer_time_ms    = total_bytes / (32 * 10^9) * 1000           *)
(*   estimated_gpu_compute_ms = estimated_flops / (100 * 10^9) * 1000      *)
(* and  compute > transfer * 5  is, in exact arithmetic,                   *)
(*   estimated_flops * 32 > total_bytes * 5 * 100.                         *)
(* The model compares the two sides exactly, after dividing both by their  *)
(* common factor.  The code compares rounded f64 values: where the two     *)
(* sides are exactly equal the roundings of the divisions and              *)
(* multiplications decide, and either outcome is possible; the sides of    *)
(* the inputs used here are whole numbers, which differ by far more than   *)
(* the rounding error when they differ.                                    *)
(***************************************************************************)
Num(v) == [kind |-> "num", value |-> v]
NaN == [kind |-> "nan", value |-> 0]
Infinity == [kind |-> "inf", value |-> 0]

RECURSIVE GCD(_, _)
GCD(a, b) == IF b = 0 THEN a ELSE GCD(b, a % b)

\* the outcomes of  estimated_gpu_compute_ms > pcie_transfer_time_ms * 5.0
compute_exceeds_transfer_reversed(total_bytes, estimated_flops) ==
    LET g == GCD(PCIE_BANDWIDTH_GBPS,
                 TRANSFER_OVERHEAD_MULTIPLIER * GPU_THROUGHPUT_GFLOPS)
        compute == estimated_flops.value * (PCIE_BANDWIDTH_GBPS \div g)
        transfer == total_bytes *
                    ((TRANSFER_OVERHEAD_MULTIPLIER * GPU_THROUGHPUT_GFLOPS) \div g)
    IN CASE estimated_flops.kind = "nan" -> {FALSE}
         [] estimated_flops.kind = "inf" -> {FALSE}
         [] OTHER -> IF compute < transfer THEN {TRUE}
                     ELSE IF compute > transfer THEN {FALSE}
                     ELSE {TRUE, FALSE}
compute_exceeds_transfer(total_bytes, estimated_flops) ==
    LET g == GCD(PCIE_BANDWIDTH_GBPS,
                 TRANSFER_OVERHEAD_MULTIPLIER * GPU_THROUGHPUT_GFLOPS)
        compute == estimated_flops.value * (PCIE_BANDWIDTH_GBPS \div g)
        transfer == total_bytes *
                    ((TRANSFER_OVERHEAD_MULTIPLIER * GPU_THROUGHPUT_GFLOPS) \div g)
    IN CASE estimated_flops.kind = "nan" -> {FALSE}
         [] estimated_flops.kind = "inf" -> {TRUE}
         [] OTHER -> IF compute > transfer THEN {TRUE}
                     ELSE IF compute < transfer THEN {FALSE}
                     ELSE {TRUE, FALSE}

\* BackendDispatcher::select, given how the comparison of rule 4 comes out
select_without_minimum(total_bytes, exceeds) ==
    IF exceeds THEN "Gpu" ELSE "Simd"
select(total_bytes, exceeds) ==
    IF total_bytes < MIN_GPU_DATA_SIZE_BYTES
    THEN "Simd"
    ELSE IF exceeds THEN "Gpu" ELSE "Simd"

\* one call of BackendDispatcher::select(total_bytes, estimated_flops)
Select ==
    /\ selOut = "NotCalled"
    /\ \E exceeds \in compute_exceeds_transfer(selBytes, selFlops) :
          /\ selCmp' = IF selBytes < MIN_GPU_DATA_SIZE_BYTES THEN "none"
                       ELSE IF exceeds THEN "greater" ELSE "not greater"
          /\ selOut' = select(selBytes, exceeds)
    /\ UNCHANGED <<selBytes, selFlops, selPrev>>
    /\ UNCHANGED selFrame

\* no earlier call of select to compare with
NoSelect == [flops |-> Num(0), cmp |-> "none", out |-> "NotCalled"]

SelectIdle ==
    /\ selBytes = 0
    /\ selFlops = Num(0)
    /\ selCmp = "none"
    /\ selOut = "NotCalled"
    /\ selPrev = NoSelect

\* sizes around the 10 MB threshold and estimates around five times the
\* transfer time of those sizes
SelectBytes ==
    {0, 1000000, 9999999, 10000000, 10000001, 10000008, 12000000, 16000000}
SelectFlops ==
    {Num(v) : v \in {-1, 0, 1000000, 156249999, 156250000, 156250001, 156250125,
                     187500000, 199999999, 200000000, 250000000, 250000001,
                     268000000}}
    \cup {NaN, Infinity}

\* a second call select(total_bytes, f) with the same size and another
\* estimate; f64 arithmetic is a function of its arguments, so the comparison
\* of equal arguments comes out as it did in the first call
SelectAgain(f) ==
    /\ selOut /= "NotCalled"
    /\ selPrev = NoSelect
    /\ selPrev' = [flops |-> selFlops, cmp |-> selCmp, out |-> selOut]
    /\ selFlops' = f
    /\ \E exceeds \in compute_exceeds_transfer(selBytes, f) :
          /\ f = selFlops /\ selCmp /= "none" => exceeds = (selCmp = "greater")
          /\ selCmp' = IF selBytes < MIN_GPU_DATA_SIZE_BYTES THEN "none"
                       ELSE IF exceeds THEN "greater" ELSE "not greater"
          /\ selOut' = select(selBytes, exceeds)
    /\ UNCHANGED selBytes
    /\ UNCHANGED selFrame

(***************************************************************************)
(* Top-K selection (topk.rs).  A RecordBatch is its schema (the column      *)
(* names) and its rows, a row one cell per column, a cell a slot of the    *)
(* column's values buffer with its validity bit.  All columns are Int32.   *)
(* Rows are numbered from 1 where the code numbers them from 0.            *)
(***************************************************************************)
Valid(v) == [valid |-> TRUE, value |-> v]
NullCell == [valid |-> FALSE, value |-> 0]
SortOrders == {"Ascending", "Descending"}

RecordBatch(fields, rows) == [schema |-> fields, rows |-> rows]
num_columns(batch) == Len(batch.schema)
\* RecordBatch::column(i), columns numbered from 0
column(batch, i) == [r \in 1..num_rows(batch) |-> batch.rows[r][i + 1]]
is_null(array, index) == ~array[index].valid
value(array, index) == array[index].value

Swap(s, i, j) == [s EXCEPT ![i] = s[j], ![j] = s[i]]

\* a <= b for the items of the heap: MinHeapItem (Descending) compares the
\* values in reverse, MaxHeapItem (Ascending) as they are
heap_le(order, a, b) ==
    IF order = "Descending" THEN a.value >= b.value ELSE a.value <= b.value

\* BinaryHeap::sift_up(start, pos), positions from 0
RECURSIVE sift_up(_, _, _, _)
sift_up(order, heap, start, pos) ==
    IF pos > start
    THEN LET parent == (pos - 1) \div 2
         IN IF heap_le(order, heap[pos + 1], heap[parent + 1])
            THEN heap
            ELSE sift_up(order, Swap(heap, pos + 1, parent + 1), start, parent)
    ELSE heap

\* BinaryHeap::push
heap_push(order, heap, item) ==
    sift_up(order, Append(heap, item), 0, Len(heap))

\* BinaryHeap::sift_down_to_bottom(pos), up to its final sift_up
RECURSIVE sift_down_to_bottom(_, _, _)
sift_down_to_bottom(order, heap, pos) ==
    LET end == Len(heap)
        child == 2 * pos + 1
    IN IF child + 1 < end
       THEN LET greater == IF heap_le(order, heap[child + 1], heap[child + 2])
                           THEN child + 1 ELSE child
            IN sift_down_to_bottom(order, Swap(heap, pos + 1, greater + 1), greater)
       ELSE IF child = end - 1
            THEN [heap |-> Swap(heap, pos + 1, child + 1), pos |-> child]
            ELSE [heap |-> heap, pos |-> pos]

\* BinaryHeap::pop, the heap it leaves
heap_pop(order, heap) ==
    LET last == heap[Len(heap)]
        rest == SubSeq(heap, 1, Len(heap) - 1)
    IN IF rest = <<>>
       THEN rest
       ELSE LET down == sift_down_to_bottom(order, [rest EXCEPT ![1] = last], 0)
            IN sift_up(order, down.heap, 0, down.pos)

\* the loop of select_top_k_i32 from row index on
RECURSIVE heap_scan(_, _, _, _, _)
heap_scan(array, k, order, index, heap) ==
    IF index > Len(array)
    THEN heap
    ELSE LET v == value(array, index)
             item == [value |-> v, index |-> index]
             top == heap[1]
             next ==
                 IF is_null(array, index) THEN heap
                 ELSE IF Len(heap) < k THEN heap_push(order, heap, item)
                 ELSE IF \/ order = "Descending" /\ v > top.value
                         \/ order = "Ascending" /\ v < top.value
                      THEN heap_push(order, heap_pop(order, heap), item)
                      ELSE heap
         IN heap_scan(array, k, order, index + 1, next)

\* result.sort_by(..) of select_top_k_i32: a stable sort by value
RECURSIVE sort_by(_, _)
sort_by(order, items) ==
    IF items = <<>>
    THEN <<>>
    ELSE LET sorted == sort_by(order, SubSeq(items, 1, Len(items) - 1))
             x == items[Len(items)]
             n == Cardinality({i \in 1..Len(sorted) :
                                  heap_le(order, sorted[i], x)})
         IN SubSeq(sorted, 1, n) \o <<x>> \o SubSeq(sorted, n + 1, Len(sorted))

select_top_k_i32(array, k, order) ==
    LET result == sort_by(order, heap_scan(array, k, order, 1, <<>>))
    IN [i \in 1..Len(result) |-> result[i].index]

\* build_batch_from_indices: every column is rebuilt from array.value(idx)
\* into an array without a validity bitmap
build_batch_from_indices(batch, indices) ==
    RecordBatch(batch.schema,
                [j \in 1..Len(indices) |->
                    [c \in 1..num_columns(batch) |->
                        Valid(batch.rows[indices[j]][c].value)]])

\* arrow's sort_to_indices with SortOptions::from(order), nulls_first false:
\* the orders of the rows it can return (it is not a stable sort)
sort_to_indices(array, order) ==
    LET N == Len(array)
    IN {p \in [1..N -> 1..N] :
          /\ \A i, j \in 1..N : i /= j => p[i] /= p[j]
          /\ \A i, j \in 1..N : i < j =>
                /\ is_null(array, p[i]) => is_null(array, p[j])
                /\ (~is_null(array, p[i]) /\ ~is_null(array, p[j]))
                      => IF order = "Descending"
                         THEN value(array, p[i]) >= value(array, p[j])
                         ELSE value(array, p[i]) <= value(array, p[j])}

sort_all_rows(batch, column_index, order) ==
    {build_batch_from_indices(batch, p) :
        p \in sort_to_indices(column(batch, column_index), order)}

NoRecordBatch == RecordBatch(<<>>, <<>>)
TopKOk(b) == [tag |-> "Ok", batch |-> b, kind |-> "none"]
TopKErr(kind) == [tag |-> "Err", batch |-> NoRecordBatch, kind |-> kind]
TopKNotCalled == [tag |-> "NotCalled", batch |-> NoRecordBatch, kind |-> "none"]

\* TopKSelection::top_k, the results it can return
top_k(batch, column_index, k, order) ==
    IF k = 0 THEN {TopKErr("InvalidInput")}
    ELSE IF column_index >= num_columns(batch) THEN {TopKErr("InvalidInput")}
    ELSE IF k >= num_rows(batch)
         THEN {TopKOk(b) : b \in sort_all_rows(batch, column_index, order)}
         ELSE {TopKOk(build_batch_from_indices(
                         batch,
                         select_top_k_i32(column(batch, column_index), k, order)))}

\* batch.top_k(column_index, k, order)
TopK ==
    /\ tkOut = TopKNotCalled
    /\ tkOut' \in top_k(tkBatch, tkCol, tkK, tkOrder)
    /\ UNCHANGED <<tkBatch, tkCol, tkK, tkOrder, tkK2, tkOut2>>
    /\ UNCHANGED tkFrame

\* once.top_k(column_index, k2, order) on the batch the first call returned
TopKAgain(k2) ==
    /\ tkOut.tag = "Ok"
    /\ tkOut2 = TopKNotCalled
    /\ tkK2' = k2
    /\ tkOut2' \in top_k(tkOut.batch, tkCol, k2, tkOrder)
    /\ UNCHANGED <<tkBatch, tkCol, tkK, tkOrder, tkOut>>
    /\ UNCHANGED tkFrame

TopKIdle ==
    /\ tkBatch = NoRecordBatch
    /\ tkCol = 0
    /\ tkK = 0
    /\ tkOrder = "Descending"
    /\ tkOut = TopKNotCalled
    /\ tkK2 = 0
    /\ tkOut2 = TopKNotCalled

\* column 0 holds the row's number or null, column 1 a few values or null
TopKScores == {Valid(-1), Valid(1), Valid(2), NullCell}
TopKRows(i) == {<<id, score>> : id \in {Valid(i), NullCell}, score \in TopKScores}
TopKSchema == <<"id", "score">>
TopKBatches ==
    UNION {{RecordBatch(TopKSchema, rows) :
              rows \in {b \in [1..n -> UNION {TopKRows(i) : i \in 1..n}] :
                           \A i \in 1..n : b[i] \in TopKRows(i)}} :
           n \in 0..MaxTopKRows}

(***************************************************************************)
(* QueryExecutor::execute (query/executor.rs) over a store of Int32        *)
(* columns.  An Option is a sequence of at most one element; a filter is   *)
(* the list of tokens filter_expr.split_whitespace() gives.                *)
(***************************************************************************)
RECURSIVE concat_batches(_)
concat_batches(bs) ==
    IF bs = <<>> THEN <<>> ELSE Head(bs).rows \o concat_batches(Tail(bs))

combine_batches(bs) ==
    IF Len(bs) = 1 THEN TopKOk(bs[1])
    ELSE IF \E i \in 1..Len(bs) : bs[i].schema /= bs[1].schema
         THEN TopKErr("StorageError")
         ELSE TopKOk(RecordBatch(bs[1].schema, concat_batches(bs)))

\* fields().iter().position(|f| f.name() == name), from 1, 0 for None
position(fields, name) ==
    IF \E i \in 1..Len(fields) : fields[i] = name
    THEN CHOOSE i \in 1..Len(fields) :
            fields[i] = name /\ \A j \in 1..(i - 1) : fields[j] /= name
    ELSE 0

\* value_str.parse::<i32>() on the literals used here: <<>> for Err
i32_parse(value_str) ==
    CASE value_str = "1" -> <<1>>
      [] value_str = "2" -> <<2>>
      [] value_str = "9" -> <<9>>
      [] OTHER -> <<>>

build_comparison_mask_i32(array, op, v) ==
    [i \in 1..Len(array) |->
        IF is_null(array, i) THEN FALSE
        ELSE CASE op = ">" -> value(array, i) > v
               [] op = ">=" -> value(array, i) >= v
               [] op = "<" -> value(array, i) < v
               [] op = "<=" -> value(array, i) <= v
               [] op = "=" -> value(array, i) = v
               [] op \in {"!=", "<>"} -> value(array, i) /= v
               [] OTHER -> FALSE]

\* arrow's filter_record_batch
filter_record_batch(batch, mask) ==
    LET kept[n \in 0..num_rows(batch)] ==
            IF n = 0 THEN <<>>
            ELSE IF mask[n] THEN Append(kept[n - 1], batch.rows[n])
                 ELSE kept[n - 1]
    IN RecordBatch(batch.schema, kept[num_rows(batch)])

apply_filter_parse_first(batch, parts) ==
    IF Len(parts) < 3 THEN TopKErr("ParseError")
    ELSE LET column_index == position(batch.schema, parts[1])
             parsed == IF Len(parts) > 3 THEN <<>> ELSE i32_parse(parts[3])
         IN IF parsed = <<>> THEN TopKErr("ParseError")
            ELSE IF column_index = 0 THEN TopKErr("InvalidInput")
            ELSE TopKOk(filter_record_batch(
                     batch,
                     build_comparison_mask_i32(column(batch, column_index - 1),
                                               parts[2], parsed[1])))
apply_filter(batch, parts) ==
    IF Len(parts) < 3 THEN TopKErr("ParseError")
    ELSE LET column_index == position(batch.schema, parts[1])
             \* parts[2..].join(" ") of more than one token holds a space
             parsed == IF Len(parts) > 3 THEN <<>> ELSE i32_parse(parts[3])
         IN IF column_index = 0 THEN TopKErr("InvalidInput")
            ELSE IF parsed = <<>> THEN TopKErr("ParseError")
            ELSE TopKOk(filter_record_batch(
                     batch,
                     build_comparison_mask_i32(column(batch, column_index - 1),
                                               parts[2], parsed[1])))

project_columns(batch, columns) ==
    IF columns = <<"*">> THEN TopKOk(batch)
    ELSE IF \E c \in 1..Len(columns) : position(batch.schema, columns[c]) = 0
    THEN TopKErr("InvalidInput")
    ELSE IF columns = <<>> THEN TopKErr("StorageError")
    ELSE TopKOk(RecordBatch(
             columns,
             [r \in 1..num_rows(batch) |->
                 [c \in 1..Len(columns) |->
                     batch.rows[r][position(batch.schema, columns[c])]]]))

\* the column an aggregate (func, col_name, alias) reads: "*" is the first
aggregate_column(fields, col_name) ==
    IF col_name = "*" THEN (IF fields = <<>> THEN 0 ELSE 1)
    ELSE position(fields, col_name)

execute_aggregations(batch, plan) ==
    LET aggs == plan.aggregations
        non_null(array) ==
            LET kept == SelectSeq(array, LAMBDA cell : cell.valid)
            IN [i \in 1..Len(kept) |-> kept[i].value]
    IN IF plan.group_by /= <<>> THEN TopKErr("InvalidInput")
       ELSE IF \E a \in 1..Len(aggs) : aggregate_column(batch.schema, aggs[a][2]) = 0
       THEN TopKErr("InvalidInput")
       ELSE TopKOk(RecordBatch(
                [a \in 1..Len(aggs) |->
                    IF aggs[a][3] = <<>> THEN aggs[a][2] ELSE aggs[a][3][1]],
                <<[a \in 1..Len(aggs) |->
                    Valid(aggregate_i32(
                        aggs[a][1],
                        non_null(column(batch,
                                        aggregate_column(batch.schema, aggs[a][2]) - 1)),
                        num_rows(batch)).value)]>>))

apply_order_by_limit_ascending(batch, plan) ==
    LET col_index == position(batch.schema, plan.order_by[1][1])
        k == IF plan.limit = <<>> THEN num_rows(batch) ELSE plan.limit[1]
    IN IF col_index = 0 THEN {TopKErr("InvalidInput")}
       ELSE top_k(batch, col_index - 1, k, "Ascending")
apply_order_by_limit(batch, plan) ==
    LET col_index == position(batch.schema, plan.order_by[1][1])
        sort_order == IF plan.order_by[1][2] = "Asc" THEN "Ascending"
                      ELSE "Descending"
        k == IF plan.limit = <<>> THEN num_rows(batch) ELSE plan.limit[1]
    IN IF col_index = 0 THEN {TopKErr("InvalidInput")}
       ELSE top_k(batch, col_index - 1, k, sort_order)

\* execute up to the result of the projection or the aggregations
execute_result(plan, bs) ==
    IF bs = <<>> THEN TopKErr("InvalidInput")
    ELSE LET combined == combine_batches(bs)
             filtered == IF plan.filter = <<>> THEN combined
                         ELSE apply_filter(combined.batch, plan.filter[1])
         IN IF combined.tag = "Err" THEN combined
            ELSE IF filtered.tag = "Err" THEN filtered
            ELSE IF plan.aggregations = <<>>
                 THEN project_columns(filtered.batch, plan.columns)
                 ELSE execute_aggregations(filtered.batch, plan)

\* QueryExecutor::execute, the results it can return
execute_plan(plan, bs) ==
    LET result == execute_result(plan, bs)
    IN IF result.tag = "Err" THEN {result}
       ELSE IF plan.order_by /= <<>>
            THEN apply_order_by_limit(result.batch, plan)
            ELSE IF plan.limit /= <<>>
                 THEN {TopKOk(RecordBatch(
                          result.batch.schema,
                          SubSeq(result.batch.rows, 1,
                                 Min(plan.limit[1], num_rows(result.batch)))))}
                 ELSE {result}

QueryPlan(columns, table, filter, group_by, aggregations, order_by, limit) ==
    [columns |-> columns, table |-> table, filter |-> filter,
     group_by |-> group_by, aggregations |-> aggregations,
     order_by |-> order_by, limit |-> limit]

\* executor.execute(&plan, &storage)
QueryExecute ==
    /\ qOut = TopKNotCalled
    /\ qResult' = execute_result(qPlan, batches)
    /\ qOut' \in execute_plan(qPlan, batches)
    /\ UNCHANGED <<qPlan, storeVars>>
    /\ UNCHANGED queryFrame

QueryIdle ==
    /\ qPlan = QueryPlan(<<"*">>, "", <<>>, <<>>, <<>>, <<>>, <<>>)
    /\ qResult = TopKNotCalled
    /\ qOut = TopKNotCalled

\* plans over a table (id, score): with and without a filter that matches
\* some, all or no rows, with literals and columns that do not exist
QueryPlans ==
    {QueryPlan(columns, "t", filter, group_by, aggregations, order_by, limit) :
        columns \in {<<"*">>, <<"score", "id">>, <<"nope">>},
        filter \in {<<>>, <<<<"score", ">", "1">>>>, <<<<"score", "<", "9">>>>,
                    <<<<"score", ">", "9">>>>, <<<<"score", "=", "x">>>>,
                    <<<<"nope", ">", "1">>>>, <<<<"nope", "=", "x">>>>,
                    <<<<"score">>>>},
        group_by \in {<<>>, <<"id">>},
        aggregations \in {<<>>, << <<"Avg", "score", <<"a">>>> >>,
                          << <<"Count", "*", <<>>>>, <<"Sum", "score", <<>>>> >>,
                          << <<"Min", "nope", <<>>>> >>},
        order_by \in {<<>>, << <<"score", "Desc">> >>,
                      << <<"id", "Asc">>, <<"score", "Desc">> >>,
                      << <<"nope", "Asc">> >>, << <<"a", "Desc">> >>},
        limit \in {<<>>, <<0>>, <<1>>, <<2>>}}

\* stores of no batch, one batch, or two batches of one row
QueryRows(n) ==
    {rows \in [1..n -> {<<Valid(i), score>> :
                           i \in 1..n, score \in {Valid(1), Valid(2), NullCell}}] :
        \A i \in 1..n : rows[i][1] = Valid(i)}
QueryStores ==
    {<<>>}
    \cup {<<RecordBatch(TopKSchema, rows)>> :
             rows \in UNION {QueryRows(n) : n \in 0..MaxQueryRows}}
    \cup {<<RecordBatch(TopKSchema, r1), RecordBatch(TopKSchema, r2)>> :
             r1 \in QueryRows(1), r2 \in QueryRows(1)}

(***************************************************************************)
(* QueryEngine::parse (query/mod.rs).  The input is the text as            *)
(* Parser::parse_sql reads it: blank, not SQL, or a list of statements.  A *)
(* statement is a query or not; a query has a body (a SELECT or a set      *)
(* operation), and a SELECT its FROM list, its projection and its WHERE.   *)
(* An expression is the list of tokens its to_string() prints; subquery    *)
(* says that it (or a relation of FROM) holds a query in parentheses.      *)
(***************************************************************************)
PlanOk(plan) == [tag |-> "Ok", kind |-> "none", plan |-> plan]
PlanErr(kind) ==
    [tag |-> "Err", kind |-> kind,
     plan |-> QueryPlan(<<>>, "", <<>>, <<>>, <<>>, <<>>, <<>>)]
PlanNotCalled ==
    [tag |-> "NotCalled", kind |-> "none",
     plan |-> QueryPlan(<<>>, "", <<>>, <<>>, <<>>, <<>>, <<>>)]

\* func.name.to_string().to_uppercase() on the names used here
to_uppercase(name) ==
    CASE name = "sum" -> "SUM"
      [] name = "avg" -> "AVG"
      [] name = "upper" -> "UPPER"
      [] OTHER -> name

\* extract_aggregate: <<>> for None, <<(func, column)>> for Some
extract_aggregate(expr) ==
    IF expr.func = "" THEN <<>>
    ELSE LET func_name == to_uppercase(expr.func)
         IN CASE func_name = "SUM" -> << <<"Sum", expr.arg>> >>
              [] func_name = "AVG" -> << <<"Avg", expr.arg>> >>
              [] func_name = "COUNT" -> << <<"Count", expr.arg>> >>
              [] func_name = "MIN" -> << <<"Min", expr.arg>> >>
              [] func_name = "MAX" -> << <<"Max", expr.arg>> >>
              [] OTHER -> <<>>

\* extract_columns: the columns and the aggregations of the projection
RECURSIVE extract_columns(_)
extract_columns(projection) ==
    IF projection = <<>>
    THEN [tag |-> "Ok", columns |-> <<>>, aggregations |-> <<>>]
    ELSE LET item == projection[Len(projection)]
             before == extract_columns(SubSeq(projection, 1, Len(projection) - 1))
             agg == extract_aggregate(item)
         IN IF before.tag = "Err" THEN before
            ELSE CASE item.item = "Wildcard" ->
                        [before EXCEPT !.columns = Append(@, "*")]
                   [] item.item = "UnnamedExpr" ->
                        IF agg /= <<>>
                        THEN [before EXCEPT !.aggregations =
                                 Append(@, <<agg[1][1], agg[1][2], <<>>>>)]
                        ELSE [before EXCEPT !.columns = Append(@, item.text)]
                   [] item.item = "ExprWithAlias" ->
                        IF agg /= <<>>
                        THEN [before EXCEPT !.aggregations =
                                 Append(@, <<agg[1][1], agg[1][2], <<item.alias>>>>)]
                        ELSE [before EXCEPT !.columns = Append(@, item.alias)]
                   [] item.item = "QualifiedWildcard" ->
                        [tag |-> "Err", columns |-> <<>>, aggregations |-> <<>>]

\* extract_table_name: <<>> for Err, <<name>> for Ok
extract_table_name(query) ==
    IF query.from = <<>> THEN <<"">>
    ELSE IF Len(query.from) > 1 THEN <<>>
    ELSE IF query.from[1].joins /= 0 THEN <<>>
    ELSE <<query.from[1].relation>>

\* the inputs carry no GROUP BY, ORDER BY or LIMIT: those three are empty
parse_select_query(query) ==
    IF query.body /= "Select" THEN PlanErr("ParseError")
    ELSE LET table == extract_table_name(query)
             items == extract_columns(query.projection)
         IN IF table = <<>> THEN PlanErr("ParseError")
            ELSE IF items.tag = "Err" THEN PlanErr("ParseError")
            ELSE PlanOk(QueryPlan(items.columns, table[1], query.selection,
                                  <<>>, items.aggregations, <<>>, <<>>))

\* QueryEngine::parse
parse(sql) ==
    IF sql.read = "blank"
    THEN PlanOk(QueryPlan(<<"*">>, "", <<>>, <<>>, <<>>, <<>>, <<>>))
    ELSE IF sql.read = "error" THEN PlanErr("ParseError")
    ELSE IF Len(sql.statements) /= 1 THEN PlanErr("ParseError")
    ELSE IF sql.statements[1].statement /= "Query" THEN PlanErr("ParseError")
    ELSE parse_select_query(sql.statements[1])

\* engine.parse(sql)
Parse ==
    /\ pOut = PlanNotCalled
    /\ pOut' = parse(pSql)
    /\ UNCHANGED pSql
    /\ UNCHANGED parseFrame

Sql(read, statements) == [read |-> read, statements |-> statements]

ParseIdle ==
    /\ pSql = Sql("blank", <<>>)
    /\ pOut = PlanNotCalled

\* the items of a projection: *, t.*, a column, an aggregate with and without
\* alias, another function, a query in parentheses
SelectItems ==
    {[item |-> "Wildcard", text |-> "*", func |-> "", arg |-> "", alias |-> "",
      subquery |-> FALSE],
     [item |-> "QualifiedWildcard", text |-> "t.*", func |-> "", arg |-> "",
      alias |-> "", subquery |-> FALSE],
     [item |-> "UnnamedExpr", text |-> "id", func |-> "", arg |-> "",
      alias |-> "", subquery |-> FALSE],
     [item |-> "UnnamedExpr", text |-> "sum(score)", func |-> "sum",
      arg |-> "score", alias |-> "", subquery |-> FALSE],
     [item |-> "ExprWithAlias", text |-> "AVG(score)", func |-> "AVG",
      arg |-> "score", alias |-> "a", subquery |-> FALSE],
     [item |-> "UnnamedExpr", text |-> "upper(name)", func |-> "upper",
      arg |-> "name", alias |-> "", subquery |-> FALSE],
     [item |-> "UnnamedExpr", text |-> "(SELECT max(id) FROM u)", func |-> "",
      arg |-> "", alias |-> "", subquery |-> TRUE]}

\* the relations of FROM: a table, a table with a JOIN, a query in parentheses
Relations ==
    {[relation |-> "t", joins |-> 0, subquery |-> FALSE],
     [relation |-> "t", joins |-> 1, subquery |-> FALSE],
     [relation |-> "(SELECT id FROM u) AS s", joins |-> 0, subquery |-> TRUE]}

\* WHERE: none, a comparison, a comparison with a query in parentheses
Selections ==
    {<<>>, << <<"score", ">", "1">> >>,
     << <<"id", "IN", "(SELECT", "id", "FROM", "u)">> >>}

Statements ==
    [statement : {"Query", "Insert"},
     body : {"Select", "SetOperation"},
     from : SeqsUpTo(Relations, 2),
     projection : {<<i>> : i \in SelectItems}
                  \cup {<<i, j>> : i, j \in {s \in SelectItems : s.func /= ""}},
     selection : Selections]

ParseInputs ==
    {Sql("blank", <<>>), Sql("error", <<>>)}
    \cup {Sql("statements", s) : s \in SeqsUpTo(Statements, 1)}
    \cup {Sql("statements", <<s, s>>) :
             s \in {t \in Statements : t.from = <<>> /\ t.selection = <<>>}}

EngineIdle ==
    /\ JitIdle /\ KernelIdle /\ ExecIdle /\ SelectIdle /\ TopKIdle /\ QueryIdle
    /\ ParseIdle

vars == <<storeVars, queueVars, engineVars>>

StoreIdle ==
    /\ iter = NoIter
    /\ iterOut = NotCalled
    /\ collected = <<>>
    /\ calls = 0
    /\ lastOp = NoOp

\* a store built by StorageEngine::new from any list of small batches
StoreInit ==
    /\ batches \in {StorageEngineNew(bs) :
                      bs \in SeqsUpTo(BatchesOf(Schemas, MaxAppendRows), MaxBatches)}
    /\ StoreIdle
    /\ QueueIdle
    /\ EngineIdle

StoreNext == AppendBatch \/ UpdateRow \/ Execute \/ Morsels \/ IterNext \/ IterDrop

Spec == StoreInit /\ [][StoreNext]_vars

\* storage.morsels().collect() on a store built by StorageEngine::new
MorselInit ==
    /\ batches \in {StorageEngineNew(bs) :
                      bs \in SeqsUpTo(BatchesOf({"A"}, MaxRows), MaxBatches)}
    /\ StoreIdle
    /\ QueueIdle
    /\ EngineIdle

MorselNextStep == Morsels \/ IterNext

MorselSpec ==
    MorselInit /\ [][MorselNextStep]_vars /\ WF_vars(Morsels) /\ WF_vars(IterNext)

\* a new transfer queue, its producers and its consumer; the runtime polls
\* every task that has been woken
QueueInit ==
    /\ batches = <<>>
    /\ StoreIdle
    /\ QueueIdle
    /\ EngineIdle

QueueNext ==
    \/ \E p \in Producers : Sender(p)
    \/ \E p \in Producers : DropSender(p)
    \/ \E p \in Producers : Enqueue(p)
    \/ \E p \in Producers : Send(p)
    \/ \E p \in Producers : EnqueueResume(p)
    \/ Dequeue
    \/ DequeueResume

QueueSpec ==
    /\ QueueInit
    /\ [][QueueNext]_vars
    /\ \A p \in Producers : WF_vars(EnqueueResume(p))
    /\ WF_vars(DequeueResume)

\* the same, with an owner that may drop the queue while clones of its
\* Sender are still held
QueueDropNext == QueueNext \/ DropQueue

QueueDropSpec ==
    /\ QueueInit
    /\ [][QueueDropNext]_vars
    /\ \A p \in Producers : WF_vars(EnqueueResume(p))
    /\ WF_vars(DequeueResume)

\* threads compiling fused kernels on the engines of the process
JitInit ==
    /\ batches = <<>>
    /\ StoreIdle
    /\ QueueIdle
    /\ EngineIdle

JitNext ==
    \/ \E t \in Callers, e \in Engines, op \in FilterOps, k \in Thresholds :
          CompileFusedFilterSum(t, e, op, k)
    \/ \E t \in Callers : CacheLock(t)
    \/ \E t \in Callers : GetOrInsert(t)

JitSpec == JitInit /\ [][JitNext]_vars

Workgroups == 0..(MaxWorkgroups - 1)

\* one call of a GPU kernel on one column
KernelInit ==
    /\ batches = <<>>
    /\ StoreIdle
    /\ QueueIdle
    /\ JitIdle
    /\ ExecIdle
    /\ SelectIdle
    /\ TopKIdle
    /\ QueryIdle
    /\ ParseIdle
    /\ data \in KernelInputs
    /\ kernel \in ReductionKernels \cup FusedKernels
    /\ gpc = "idle"
    /\ pending = {}
    /\ output = 0
    /\ gpuOut = GpuNotCalled

KernelNext ==
    \/ GpuDispatch
    \/ \E w \in Workgroups : Workgroup(w)
    \/ GpuReadBack

KernelSpec == KernelInit /\ [][KernelNext]_vars

\* the same column aggregated by a GPU kernel and by an executor built with
\* any Backend
ExecInit ==
    /\ batches = <<>>
    /\ StoreIdle
    /\ QueueIdle
    /\ JitIdle
    /\ SelectIdle
    /\ TopKIdle
    /\ QueryIdle
    /\ ParseIdle
    /\ data \in SeqsUpTo(SampleValues, MaxColumnLen) \ {<<>>}
    /\ kernel \in ReductionKernels
    /\ gpc = "idle"
    /\ pending = {}
    /\ output = 0
    /\ gpuOut = GpuNotCalled
    /\ backend \in {QueryExecutorNew} \cup {with_backend(b) : b \in Backends}
    /\ execOut = ExecNotCalled

ExecNext ==
    \/ KernelNext
    \/ \E func \in AggregateFunctions : ExecutorAggregate(func)

ExecSpec == ExecInit /\ [][ExecNext]_vars

\* one call of the dispatcher
SelectInit ==
    /\ batches = <<>>
    /\ StoreIdle
    /\ QueueIdle
    /\ JitIdle
    /\ KernelIdle
    /\ ExecIdle
    /\ TopKIdle
    /\ QueryIdle
    /\ ParseIdle
    /\ selBytes \in SelectBytes
    /\ selFlops \in SelectFlops
    /\ selCmp = "none"
    /\ selOut = "NotCalled"
    /\ selPrev = NoSelect

SelectNext == Select \/ \E f \in SelectFlops : SelectAgain(f)

SelectSpec == SelectInit /\ [][SelectNext]_vars

(***************************************************************************)
(* Top-K: top_k on every small batch, column index, k and order, and a     *)
(* second top_k on the batch it returned.                                  *)
(***************************************************************************)
TopKInit ==
    /\ batches = <<>>
    /\ StoreIdle
    /\ QueueIdle
    /\ JitIdle
    /\ KernelIdle
    /\ ExecIdle
    /\ SelectIdle
    /\ QueryIdle
    /\ ParseIdle
    /\ tkBatch \in TopKBatches
    /\ tkCol \in 0..Len(TopKSchema)
    /\ tkK \in 0..(MaxTopKRows + 1)
    /\ tkOrder \in SortOrders
    /\ tkOut = TopKNotCalled
    /\ tkK2 = 0
    /\ tkOut2 = TopKNotCalled

TopKNext == TopK \/ \E k2 \in 1..(MaxTopKRows + 1) : k2 <= tkK /\ TopKAgain(k2)

TopKSpec == TopKInit /\ [][TopKNext]_vars

(***************************************************************************)
(* Queries: one execute of every plan of QueryPlans on every small store.  *)
(***************************************************************************)
QueryInit ==
    /\ batches \in QueryStores
    /\ StoreIdle
    /\ QueueIdle
    /\ JitIdle
    /\ KernelIdle
    /\ ExecIdle
    /\ SelectIdle
    /\ TopKIdle
    /\ ParseIdle
    /\ qPlan \in QueryPlans
    /\ qResult = TopKNotCalled
    /\ qOut = TopKNotCalled

QueryNext == QueryExecute

QuerySpec == QueryInit /\ [][QueryNext]_vars

(***************************************************************************)
(* The parser: one parse of every input of ParseInputs.                    *)
(***************************************************************************)
ParseInit ==
    /\ batches = <<>>
    /\ StoreIdle
    /\ QueueIdle
    /\ JitIdle
    /\ KernelIdle
    /\ ExecIdle
    /\ SelectIdle
    /\ TopKIdle
    /\ QueryIdle
    /\ pSql \in ParseInputs
    /\ pOut = PlanNotCalled

ParseNext == Parse

ParseSpec == ParseInit /\ [][ParseNext]_vars

(***************************************************************************)
(* Properties of the morsel iterator, checked under MorselSpec.            *)
(***************************************************************************)
IterDone == iter.active /\ iterOut = None

\* C1 (morsel totality): the iteration ends, and the row counts of the
\* morsels it produced add up to the row counts of the batches of the store.
MorselTotality == <>(IterDone /\ Len(collected) = TotalRows(batches))

\* C2 (morsels() is finite): after finitely many calls next() returns None.
MorselsFinite == <>IterDone

\* C3 (morsel bound): every morsel produced occupies at most
\* MORSEL_SIZE_BYTES bytes.
MorselBound ==
    iterOut.tag = "Some" => MorselBytes(batches, iterOut) <= MORSEL_SIZE_BYTES

\* a morsel is a row range of one batch of the store
WithinOneBatch(bs, m) ==
    /\ m.batch + 1 \in 1..Len(bs)
    /\ m.offset + m.length <= num_rows(bs[m.batch + 1])

\* C4 (morsel concatenation): every morsel is a contiguous row range of one
\* batch, and the morsels of the whole iteration, concatenated in iteration
\* order, are the rows of the batches in store order.
MorselConcatenation ==
    /\ [](iterOut.tag = "Some" => WithinOneBatch(batches, iterOut))
    /\ <>(IterDone /\ collected = AllRows(batches, 0))

(***************************************************************************)
(* Properties of the store, checked under Spec.                            *)
(***************************************************************************)
IsPrefix(s, t) == Len(s) <= Len(t) /\ \A i \in 1..Len(s) : s[i] = t[i]

\* a step of append_batch (it needs &mut self: no iterator is alive)
AppendStep == lastOp'.op = "append_batch" /\ ~iter.active

\* what every append does, given the error kind of a schema mismatch
AppendEffect(kind) ==
    AppendStep =>
      LET batch == lastOp'.arg IN
      /\ (batches /= <<>> /\ schema(batch) /= schema(batches[1]))
            => lastOp'.kind = kind
      /\ lastOp'.kind /= "Ok" => batches' = batches
      /\ lastOp'.kind = "Ok" => batches' = Append(batches, batch)
      /\ UNCHANGED <<iter, iterOut, collected, calls>>

StoreSchemaInvariant ==
    \A i, j \in 1..Len(batches) : schema(batches[i]) = schema(batches[j])

\* C7 (append-only): the batch sequence before a step is a prefix of the
\* batch sequence after it, and update_row fails and changes no batch.
AppendOnly ==
    [][/\ IsPrefix(batches, batches')
       /\ lastOp'.op = "update_row"
            => lastOp'.kind /= "Ok" /\ batches' = batches]_vars

\* update_row was called on a store that holds batches
UpdateRowCalled ==
    /\ lastOp.op = "update_row"
    /\ lastOp.kind = "StorageError"
    /\ Len(batches) >= 2

(***************************************************************************)
(* Properties of the transfer queue, checked under QueueSpec.              *)
(***************************************************************************)

\* C8 (transfer queue bound): the queue never holds more than
\* MAX_IN_FLIGHT_TRANSFERS batches; while nothing has been dequeued no more
\* than that many enqueues have completed, and while the queue is full every
\* enqueue in flight stays suspended.
TransferQueueBound ==
    /\ Len(buffer) <= MAX_IN_FLIGHT_TRANSFERS
    /\ delivered = <<>> => Len(accepted) <= MAX_IN_FLIGHT_TRANSFERS
    /\ Len(buffer) = MAX_IN_FLIGHT_TRANSFERS
         => \A p \in Producers : ppc[p] /= "idle" => ppc[p] = "waiting"

\* two batches are queued, nothing was dequeued, a third enqueue is suspended
ThirdEnqueueSuspended ==
    /\ Len(buffer) = MAX_IN_FLIGHT_TRANSFERS
    /\ delivered = <<>>
    /\ \E p \in Producers : ppc[p] = "waiting"

\* C9 (a suspended enqueue resumes after one dequeue): once a dequeue has
\* removed a batch while a suspended enqueue was first in line, that enqueue
\* eventually returns Ok with its batch in the queue or handed to the consumer.
SuspendedEnqueueResumes ==
    \A b \in 1..(MaxSends + 1) :
        (b \in due) ~> (/\ b \in Range(accepted)
                        /\ b \in Range(buffer) \cup Range(delivered)
                        /\ \A p \in Producers : msg[p] /= b)

\* a suspended enqueue was resumed by a dequeue and has completed
ResumedEnqueueCompleted ==
    \E b \in due : b \in Range(accepted) /\ b \in Range(buffer)

\* no task can send any more: no clone of the Sender is alive and no send
\* is in flight
NoProducerRemains ==
    /\ \A p \in Producers : handle[p] = "none" /\ ppc[p] = "idle"

\* C10 (dequeue on an empty queue): dequeue suspends only when the queue is
\* empty, and once no producer remains and every enqueued batch has been
\* delivered, a dequeue returns None instead of staying suspended.
DequeueSentinel ==
    /\ [][cpc = "idle" /\ cpc' = "waiting" => buffer = <<>>]_vars
    /\ [](cpc = "waiting" /\ NoProducerRemains /\ buffer = <<>>
            => <>(cpc = "idle" /\ deqOut = DeqNone))


\* C11 (enqueue on a dropped queue): a send issued once the queue and its
\* Receiver are gone returns Error::QueueClosed at once: no producer is left
\* suspended by it and no batch is reported as accepted.
EnqueueAfterDropFails ==
    [][(QueueDropped /\ nextId' /= nextId) =>
         /\ accepted' = accepted
         /\ ppc' = ppc
         /\ \E p \in Producers :
               /\ sendOut'[p] = "QueueClosed"
               /\ \A q \in Producers \ {p} : sendOut'[q] = sendOut[q]]_vars

\* C12 (FIFO, lossless): the batches handed out by dequeue, followed by the
\* batches still queued, are the accepted batches in the order their
\* enqueues completed, and no batch is handed out twice.
FifoLossless ==
    /\ accepted = delivered \o buffer
    /\ \A i, j \in 1..Len(delivered) : i /= j => delivered[i] /= delivered[j]

SeveralBatchesDequeued == Len(delivered) >= 3 /\ buffer /= <<>>

(***************************************************************************)
(* Properties of the shader cache, checked under JitSpec.                  *)
(***************************************************************************)
\* C13 (get-or-insert is idempotent under concurrency): on every cache a key
\* is compiled at most once, all callers that asked the cache for the key
\* were handed the same module, and an entry is never replaced or removed.
ShaderCacheIdempotent ==
    /\ [](\A i, j \in 1..Len(compileLog) :
            (/\ i /= j
             /\ jit_cache(compileLog[i].engine) = jit_cache(compileLog[j].engine))
            => compileLog[i].key /= compileLog[j].key)
    /\ [](\A i, j \in 1..Len(returnLog) :
            (/\ jit_cache(returnLog[i].engine) = jit_cache(returnLog[j].engine)
             /\ returnLog[i].key = returnLog[j].key)
            => returnLog[i].module = returnLog[j].module)
    /\ [][\A c \in Engines : \A k \in DOMAIN shaderCache[c] :
            /\ k \in DOMAIN shaderCache'[c]
            /\ shaderCache'[c][k] = shaderCache[c][k]]_vars

TwoCallersSameModule ==
    \E t, u \in Callers :
        /\ t /= u
        /\ jitOut[t] /= NoModule
        /\ jitOut[t] = jitOut[u]

RECURSIVE SumFrom(_, _, _, _)
\* acc + input[lo] + .. + input[hi], added one after the other from the left
\* in i32: the elements up to the middle first, then the rest, starting from
\* what the first part gave
SumFrom(acc, input, lo, hi) ==
    IF lo > hi THEN acc
    ELSE IF lo = hi THEN wrapping_add(acc, input[lo])
    ELSE LET mid == (lo + hi) \div 2
             left == SumFrom(acc, input, lo, mid)
         IN IF left \in I32_MIN..I32_MAX
            THEN SumFrom(left, input, mid + 1, hi)
            ELSE left

\* the sequential i32 sum of the first n elements, wrapping around
WrappingSum(input, n) == SumFrom(0, input, 1, n)

\* C16 (wrapping Sum on every backend): the GPU sum kernel and the SUM of
\* the SQL executor both return the wrapping i32 sum of the column, which
\* is i32::MIN for [i32::MAX, 1].
WrappingSumOnEveryBackend ==
    /\ (gpc = "done" /\ kernel.kind = "sum")
          => gpuOut = GpuOk(WrappingSum(data, Len(data)))
    /\ (execOut.tag = "Ok" /\ execOut.func = "Sum")
          => execOut.value = i64_from(WrappingSum(data, Len(data)))

\* the scalar result: the sequential fold of the column
ScalarFold(kind, input) ==
    CASE kind = "sum" -> WrappingSum(input, Len(input))
      [] kind = "min" -> CHOOSE m \in Range(input) : \A v \in Range(input) : m <= v
      [] kind = "max" -> CHOOSE m \in Range(input) : \A v \in Range(input) : m >= v

\* C17 (GPU matches scalar for i32): for a non-empty column a finished GPU
\* sum, min or max returns the sequential fold of the column, in whatever
\* order the workgroups ran their atomic combines.
GpuMatchesScalar ==
    (gpc = "done" /\ kernel.kind \in {"sum", "min", "max"} /\ data /= <<>>)
        => gpuOut = GpuOk(ScalarFold(kernel.kind, data))

SeveralWorkgroupsWithRemainder ==
    /\ gpc = "done"
    /\ kernel.kind \in {"sum", "min", "max"}
    /\ Len(data) > 2 * WORKGROUP_SIZE
    /\ Len(data) % WORKGROUP_SIZE /= 0

\* v OP K for the six operators, by the name the engine knows them by
OpHolds(op, v, K) ==
    CASE op = "gt" -> v > K
      [] op = "lt" -> v < K
      [] op = "gte" -> v >= K
      [] op = "lte" -> v <= K
      [] op = "eq" -> v = K
      [] op = "ne" -> v /= K

\* the wrapping sum of the elements v among the first n with v OP K
FilteredSum(op, K, input, n) ==
    WrappingSum([i \in 1..n |-> IF OpHolds(op, input[i], K) THEN input[i] ELSE 0], n)

\* C18 (fused filter+sum): a finished fused kernel for (OP, K) returns the
\* sum of exactly the elements v with v OP K.
FusedFilterSumCorrect ==
    (gpc = "done" /\ kernel.kind = "fused")
        => gpuOut = GpuOk(FilteredSum(kernel.op, kernel.threshold, data, Len(data)))

OneToTenGreaterThanFive ==
    /\ data = ramp(10)
    /\ kernel = [kind |-> "fused", op |-> "gt", threshold |-> 5]
    /\ gpuOut = GpuOk(40)

\* C19 (explicit backend overrides selection): an aggregate executed by an
\* executor built with Backend Gpu or Simd ran on that backend.
ExplicitBackendOverrides ==
    (execOut.tag = "Ok" /\ backend \in {"Gpu", "Simd"})
        => execOut.ranOn = backend

(***************************************************************************)
(* Properties of the backend dispatcher, checked under SelectSpec.         *)
(***************************************************************************)
\* compute_ms > 5 x transfer_ms with transfer_ms = bytes / 32e9 x 1000 and
\* compute_ms = flops / 100e9 x 1000, that is flops x 8 > bytes x 125; at
\* exact equality it is what the f64 comparison of the call gave
ComputeOverFiveTransfers ==
    CASE selFlops.kind = "nan" -> FALSE
      [] selFlops.kind = "inf" -> TRUE
      [] OTHER ->
           \/ selFlops.value * 8 > selBytes * 125
           \/ selFlops.value * 8 = selBytes * 125 /\ selCmp = "greater"

FlopsAtLeast(a, b) ==
    CASE a.kind = "nan" \/ b.kind = "nan" -> FALSE
      [] a.kind = "inf" -> TRUE
      [] b.kind = "inf" -> FALSE
      [] OTHER -> a.value >= b.value

\* C21 (dispatcher monotonicity): at fixed bytes, if select(bytes, f) = Gpu
\* and f' >= f then select(bytes, f') = Gpu.
SelectMonotone ==
    (selPrev.out = "Gpu" /\ FlopsAtLeast(selFlops, selPrev.flops))
        => selOut = "Gpu"

RaisedFlopsStillGpu ==
    /\ selPrev.out = "Gpu"
    /\ selPrev.flops.kind = "num"
    /\ selFlops.kind = "num"
    /\ selFlops.value > selPrev.flops.value
    /\ selOut = "Gpu"

(***************************************************************************)
(* Properties of Top-K, checked under TopKSpec.                            *)
(***************************************************************************)
\* C22 (row count): top_k(B, c, k, order) with k >= 1 and a valid column
\* returns exactly min(k, N) rows, N the number of rows of B, also when the
\* sort column contains nulls.
TopKRowCount ==
    tkOut.tag = "Ok" => num_rows(tkOut.batch) = Min(tkK, num_rows(tkBatch))

\* the sort-column values of the result, and how often a value occurs among
\* the non-null sort-column cells of a batch
ResultValues ==
    [i \in 1..num_rows(tkOut.batch) |-> tkOut.batch.rows[i][tkCol + 1].value]
Occurrences(batch, v) ==
    Cardinality({i \in 1..num_rows(batch) :
                    /\ batch.rows[i][tkCol + 1].valid
                    /\ batch.rows[i][tkCol + 1].value = v})
NonSelectedValues ==
    {v \in {tkBatch.rows[i][tkCol + 1].value : i \in 1..num_rows(tkBatch)} :
        Occurrences(tkBatch, v) > Occurrences(tkOut.batch, v)}

\* C23 (extremal rows in order): under Descending every result value is >=
\* the value of every input row that was not selected and the result is
\* non-increasing; under Ascending <= and non-decreasing.
TopKExtremalOrdered ==
    tkOut.tag = "Ok" =>
        LET r == ResultValues
        IN IF tkOrder = "Descending"
           THEN /\ \A i \in 1..Len(r) : \A v \in NonSelectedValues : r[i] >= v
                /\ \A i, j \in 1..Len(r) : i < j => r[i] >= r[j]
           ELSE /\ \A i \in 1..Len(r) : \A v \in NonSelectedValues : r[i] <= v
                /\ \A i, j \in 1..Len(r) : i < j => r[i] <= r[j]

RowCount(batch, row) ==
    Cardinality({i \in 1..num_rows(batch) : batch.rows[i] = row})

\* C24 (row integrity): the result has the input's schema, every result row
\* equals one distinct input row in all columns, values and null entries
\* alike, and no input row occurs more often in the result than in the input.
TopKRowIntegrity ==
    tkOut.tag = "Ok" =>
        /\ tkOut.batch.schema = tkBatch.schema
        /\ \A i \in 1..num_rows(tkOut.batch) :
              LET row == tkOut.batch.rows[i]
              IN /\ RowCount(tkBatch, row) >= 1
                 /\ RowCount(tkOut.batch, row) <= RowCount(tkBatch, row)

\* C25 (idempotence): for 1 <= k' <= k, top_k(top_k(B, c, k, o), c, k', o)
\* yields the same rows in the same order as the first k' rows of
\* top_k(B, c, k, o), also when the sort column holds equal values.
TopKIdempotent ==
    tkOut2.tag /= "NotCalled" =>
        /\ tkOut2.tag = "Ok"
        /\ tkOut2.batch.rows =
               SubSeq(tkOut.batch.rows, 1, Min(tkK2, num_rows(tkOut.batch)))

(***************************************************************************)
(* Properties of QueryExecutor::execute, checked under QuerySpec.          *)
(***************************************************************************)
\* the rows of the store that a filter of the plans keeps, written out per
\* filter: the score is not null and compares as the filter says
FilterKeeps(row, parts) ==
    /\ row[2].valid
    /\ CASE parts = <<"score", ">", "1">> -> row[2].value > 1
         [] parts = <<"score", "<", "9">> -> row[2].value < 9
         [] parts = <<"score", ">", "9">> -> row[2].value > 9
         [] OTHER -> FALSE
GoodFilters ==
    {<<"score", ">", "1">>, <<"score", "<", "9">>, <<"score", ">", "9">>}
StoreRows == concat_batches(batches)
KeptRows ==
    IF qPlan.filter = <<>> THEN StoreRows
    ELSE SelectSeq(StoreRows, LAMBDA row : FilterKeeps(row, qPlan.filter[1]))
OrderColumn == position(qResult.batch.schema, qPlan.order_by[1][1])

\* C26 (ordering and limit): with a non-empty order_by the result of execute
\* is Top-K applied to the filtered and then projected or aggregated batch, on
\* the first order-by column, with k = plan.limit if present and that batch's
\* row count otherwise; with an empty order_by and a limit it is the first
\* min(limit, N) rows in store order.
ExecutorOrderLimit ==
    (qOut.tag /= "NotCalled" /\ qResult.tag = "Ok") =>
        /\ (qPlan.columns = <<"*">> /\ qPlan.aggregations = <<>>)
              => qResult.batch.rows = KeptRows
        /\ (qPlan.order_by /= <<>> /\ OrderColumn /= 0) =>
              qOut \in top_k(qResult.batch, OrderColumn - 1,
                             IF qPlan.limit = <<>> THEN num_rows(qResult.batch)
                             ELSE qPlan.limit[1],
                             IF qPlan.order_by[1][2] = "Desc" THEN "Descending"
                             ELSE "Ascending")
        /\ (qPlan.order_by = <<>> /\ qPlan.limit /= <<>>) =>
              /\ qOut.tag = "Ok"
              /\ qOut.batch.schema = qResult.batch.schema
              /\ qOut.batch.rows =
                    SubSeq(qResult.batch.rows, 1,
                           Min(qPlan.limit[1], num_rows(qResult.batch)))

FilteredOrderedLimited ==
    /\ qOut.tag = "Ok"
    /\ qPlan.filter /= <<>>
    /\ qPlan.order_by /= <<>>
    /\ qPlan.order_by[1][2] = "Desc"
    /\ qPlan.limit = <<1>>
    /\ num_rows(qResult.batch) = 2
    /\ num_rows(qOut.batch) = 1
    /\ qOut.batch.rows[1][2] = Valid(2)
    /\ qResult.batch.rows[1][2] = Valid(1)

\* C27 (Avg on empty input): an AVG over zero values yields no value, and over
\* values it is their sum divided by their number.
AvgAbsentOnEmpty ==
    (qResult.tag = "Ok" /\ qPlan.aggregations = << <<"Avg", "score", <<"a">>>> >>) =>
        LET kept == SelectSeq(KeptRows, LAMBDA row : row[2].valid)
            sum == SumSeq([i \in 1..Len(kept) |-> kept[i][2].value])
            avg == qResult.batch.rows[1][1]
        IN IF kept = <<>>
           THEN ~avg.valid
           ELSE avg.valid /\ avg.value.num = sum /\ avg.value.den = Len(kept)

\* the columns a plan names that the store's schema does not contain, and a
\* filter literal that does not parse as a value of its column's type
StoreSchema == batches[1].schema
NamesMissingColumn ==
    \/ qPlan.filter /= <<>> /\ position(StoreSchema, qPlan.filter[1][1]) = 0
    \/ qPlan.columns /= <<"*">>
          /\ \E c \in 1..Len(qPlan.columns) : position(StoreSchema, qPlan.columns[c]) = 0
    \/ \E a \in 1..Len(qPlan.aggregations) :
          /\ qPlan.aggregations[a][2] /= "*"
          /\ position(StoreSchema, qPlan.aggregations[a][2]) = 0
    \/ \E o \in 1..Len(qPlan.order_by) : position(StoreSchema, qPlan.order_by[o][1]) = 0
BadLiteral ==
    /\ qPlan.filter /= <<>>
    /\ Len(qPlan.filter[1]) >= 3
    /\ position(StoreSchema, qPlan.filter[1][1]) /= 0
    /\ qPlan.filter[1][3] \notin {"1", "2", "9"}
Fails(kind) == qOut.tag = "Err" /\ qOut.kind = kind

\* C28 (error kinds) as stated: execute fails with InvalidInput whenever the
\* plan names a column the store's schema does not contain, and with
\* ParseError whenever the filter literal cannot be parsed as a value of the
\* filter column's type.
ExecuteErrorKindsClaimed ==
    (qOut.tag /= "NotCalled" /\ batches /= <<>>) =>
        /\ NamesMissingColumn => Fails("InvalidInput")
        /\ BadLiteral => Fails("ParseError")

\* C28 as amended: the filter is checked first, its number of tokens, then
\* its column, then its literal; then the columns of the aggregates or, without aggregates, of the
\* projection; then the first order-by column, looked up in the projected or
\* aggregated result.
ExecuteErrorKinds ==
    (qOut.tag /= "NotCalled" /\ batches /= <<>>) =>
        LET filter_column_missing ==
                /\ qPlan.filter /= <<>>
                /\ Len(qPlan.filter[1]) >= 3
                /\ position(StoreSchema, qPlan.filter[1][1]) = 0
            filter_passes_checks ==
                qPlan.filter /= <<>> => qPlan.filter[1] \in GoodFilters
            selected_column_missing ==
                IF qPlan.aggregations /= <<>>
                THEN \E a \in 1..Len(qPlan.aggregations) :
                        /\ qPlan.aggregations[a][2] /= "*"
                        /\ position(StoreSchema, qPlan.aggregations[a][2]) = 0
                ELSE /\ qPlan.columns /= <<"*">>
                     /\ \E c \in 1..Len(qPlan.columns) :
                           position(StoreSchema, qPlan.columns[c]) = 0
        IN /\ (qPlan.filter /= <<>> /\ Len(qPlan.filter[1]) < 3)
                 => Fails("ParseError")
           /\ filter_column_missing => Fails("InvalidInput")
           /\ BadLiteral => Fails("ParseError")
           /\ (filter_passes_checks /\ selected_column_missing)
                 => Fails("InvalidInput")
           /\ (qResult.tag = "Ok" /\ qPlan.order_by /= <<>> /\ OrderColumn = 0)
                 => Fails("InvalidInput")

BadLiteralBeforeMissingColumn ==
    /\ Fails("ParseError")
    /\ BadLiteral
    /\ qPlan.columns = <<"nope">>
    /\ qPlan.aggregations = <<>>

\* C30 (zero rows): a query that selects zero rows, because the filter matches
\* no row or LIMIT is 0, is answered with an empty batch and not an error,
\* with or without ORDER BY.
ZeroRowsAnswered ==
    (/\ qOut.tag /= "NotCalled"
     /\ qResult.tag = "Ok"
     /\ num_rows(qResult.batch) = 0 \/ qPlan.limit = <<0>>
     /\ qPlan.order_by /= <<>> => OrderColumn /= 0)
        => (qOut.tag = "Ok" /\ num_rows(qOut.batch) = 0)

(***************************************************************************)
(* Properties of QueryEngine::parse, checked under ParseSpec.              *)
(***************************************************************************)
HoldsSubquery(s) ==
    \/ \E i \in 1..Len(s.from) : s.from[i].subquery
    \/ \E i \in 1..Len(s.projection) : s.projection[i].subquery
    \/ s.selection = << <<"id", "IN", "(SELECT", "id", "FROM", "u)">> >>

\* C29 (parse rejects): parse returns ParseError and no plan for every input
\* that holds several statements, a statement that is not a SELECT, a JOIN,
\* several FROM targets, a qualified wildcard or a subquery.
ParseRejects ==
    (/\ pOut.tag /= "NotCalled"
     /\ pSql.read = "statements"
     /\ \/ Len(pSql.statements) > 1
        \/ \E n \in 1..Len(pSql.statements) :
              LET s == pSql.statements[n]
              IN \/ s.statement /= "Query"
                 \/ s.body /= "Select"
                 \/ \E i \in 1..Len(s.from) : s.from[i].joins /= 0
                 \/ Len(s.from) > 1
                 \/ \E i \in 1..Len(s.projection) :
                       s.projection[i].item = "QualifiedWildcard"
                 \/ HoldsSubquery(s))
        => (pOut.tag = "Err" /\ pOut.kind = "ParseError")
====
